---- MODULE Spec2Model ----
(***************************************************************************)
(* Request routing and conversational state of the Telegram / ChatGPT      *)
(* relay bot: the handler HandleUpdate (package handler), the pending      *)
(* registries it keeps per user, and the project store (package storage).  *)
(*                                                                         *)
(* One HandleUpdate call that ends in a command, a pending follow-up, a    *)
(* denial or an ignored event is one action.  A conversational turn is a   *)
(* sequence of actions, one per store transaction or transport call, since *)
(* the handler blocks on the completion call in between and other handlers *)
(* run concurrently with it.                                               *)
(***************************************************************************)
EXTENDS Integers, Sequences, FiniteSets, TLC

\* ------------------------------------------------------------------ bounds
\* number of updates handed to HandleUpdate in one behaviour
MaxEvents == 3
\* number of messages of one conversation in one behaviour
MaxTurns == 2
\* number of progress ticks one turn may see while it waits
MaxTicks == 1
\* largest history limit configured in an initial state
MaxLimit == 2
\* number of messages of one conversation in a behaviour checked for progress
MaxLiveTurns == 1
\* number of updates in a behaviour of concurrent handlers
MaxConcEvents == 3
\* number of updates in a behaviour that changes the limit or clears the history
MaxKeepEvents == 4
\* turns whose completion call is followed, in SpecFallback
MaxAsks == 3
\* longest text, in runes, and largest chunk size given to splitMessage by itself
MaxRunes == 5
MaxSize == 4

\* ----------------------------------------------------------------- domains
\* msg.From.ID of the senders; NoUser stands for msg.From == nil
Users == {1, 2}
NoUser == 0
Senders == Users \cup {NoUser}
\* msg.Chat.ID and msg.MessageThreadID (0: no topic)
Chats == {1}
Topics == {0, 7}
Keys == Chats \X Topics
\* project names given as command arguments
Names == {"demo", "other"}
\* concurrently running conversational handlers
Handlers == {1, 2}

defaultModel == "gpt-5"

\* --------------------------------------------------------- string helpers
Char(s, i) == SubSeq(s, i, i)

IsSpace(c) == c \in {" ", "\t", "\n", "\r"}

RECURSIVE TrimLeft(_)
TrimLeft(s) ==
  IF Len(s) > 0 /\ IsSpace(Char(s, 1)) THEN TrimLeft(SubSeq(s, 2, Len(s))) ELSE s

RECURSIVE TrimRight(_)
TrimRight(s) ==
  IF Len(s) > 0 /\ IsSpace(Char(s, Len(s))) THEN TrimRight(SubSeq(s, 1, Len(s) - 1)) ELSE s

\* strings.TrimSpace
TrimSpace(s) == TrimRight(TrimLeft(s))

RECURSIVE ToLower(_)
\* strings.ToLower, letter by letter
ToLower(s) ==
  LET UpperLetters == "ABCDEFGHIJKLMNOPQRSTUVWXYZ"
      LowerLetters == "abcdefghijklmnopqrstuvwxyz"
      LowerChar(c) ==
        IF \E i \in 1..Len(UpperLetters) : Char(UpperLetters, i) = c
        THEN Char(LowerLetters, CHOOSE i \in 1..Len(UpperLetters) : Char(UpperLetters, i) = c)
        ELSE c
  IN IF Len(s) = 0 THEN s ELSE LowerChar(Char(s, 1)) \o ToLower(SubSeq(s, 2, Len(s)))

Digits == "0123456789"

\* strconv.Atoi: an optional sign followed by decimal digits; ok = FALSE is err != nil
Atoi(s) ==
  LET IsDigit(c) == \E i \in 1..Len(Digits) : Char(Digits, i) = c
      DigitVal(c) == (CHOOSE i \in 1..Len(Digits) : Char(Digits, i) = c) - 1
      RECURSIVE DigitsVal(_)
      DigitsVal(x) ==
        IF Len(x) = 0 THEN 0
        ELSE DigitsVal(SubSeq(x, 1, Len(x) - 1)) * 10 + DigitVal(Char(x, Len(x)))
      AllDigits(x) == Len(x) > 0 /\ \A i \in 1..Len(x) : IsDigit(Char(x, i))
      signed == Len(s) > 0 /\ Char(s, 1) \in {"+", "-"}
      body == IF signed THEN SubSeq(s, 2, Len(s)) ELSE s
  IN IF AllDigits(body)
     THEN [ok |-> TRUE,
           val |-> IF signed /\ Char(s, 1) = "-" THEN 0 - DigitsVal(body) ELSE DigitsVal(body)]
     ELSE [ok |-> FALSE, val |-> 0]

\* strconv.Itoa for the small non-negative numbers of the model
Itoa(n) == IF n < 10 THEN Char(Digits, n + 1) ELSE Char(Digits, (n \div 10) + 1) \o Char(Digits, (n % 10) + 1)

\* ------------------------------------------------------------------ state
VARIABLES
  allowedUsers,       \* handler.allowedUsers: the allow-list (empty: everybody)
  chunking,           \* a call of splitMessage by itself: its arguments and its result
  completion,         \* the completion goroutine of the Chat-Completions handler
  projects,           \* bucket "projects": the registered names
  mapping,            \* bucket "mapping": <<chat, topic>> -> project name ("": none)
  models,             \* bucket "models": project -> model ("": none)
  rules,              \* bucket "rules": project -> instruction ("": none)
  webSearch,          \* project -> stored web-search mode ("": none)
  reasoning,          \* project -> stored reasoning effort ("": none)
  transcribe,         \* project -> stored transcription toggle ("": none)
  historyLimits,      \* bucket "history_limits": project -> limit (0: none)
  history,            \* bucket "history"/project: the stored entries, by key
  histSeq,            \* the sequence counter of each project's history bucket
  histBucket,         \* the projects whose history bucket exists
  pendingModel, pendingRule, pendingWebSearch, pendingReasoning,
  pendingTranscribe, pendingHistLimit, pendingClearHist,
                      \* the seven registries: user -> project name ("": no entry)
  turn,               \* the locals of each running conversational handler
  sent,               \* the transport calls issued by the last step
  nEvents,            \* updates handled so far (also the clock of time.Now)
  quota,              \* how many updates this run of the bot receives
  handling,           \* <<msg>> while HandleUpdate(msg) runs, <<>> once it has returned
  crashed             \* a handler panicked: the process is gone

store == <<projects, mapping, models, rules, webSearch, reasoning, transcribe,
           historyLimits>>
histVars == <<history, histSeq, histBucket>>
pendings == <<pendingModel, pendingRule, pendingWebSearch, pendingReasoning,
              pendingTranscribe, pendingHistLimit, pendingClearHist>>
vars == <<allowedUsers, chunking, completion, store, histVars, pendings, turn, sent, nEvents, quota, handling, handling,
          crashed>>

\* ----------------------------------------------------------------- updates
CmdNames == {"newproject", "settopic", "unsettopic", "setmodel", "setrule", "showrule",
             "websearch", "setwebsearch", "reasoning", "setreasoning", "transcribe",
             "settranscribe", "history", "historymessages", "sethistorylimit",
             "clearhistory", "listprojects"}
\* a bot-command token the switch does not know
OtherCmds == {"help"}
CmdArgs == {"", " demo", " other"}
\* texts of plain messages
Texts == {" Low", "on", "1", "-1", "confirm"}
Captions == {"look"}

\* parseCommand: ok iff the text is non-empty and starts with a bot_command entity;
\* cmd is the entity's text without its slash, args the trimmed rest
parseCommand(msg) ==
  IF msg.Text = "" \/ msg.CmdLen = 0
  THEN [ok |-> FALSE, cmd |-> "", args |-> ""]
  ELSE [ok |-> TRUE,
        cmd |-> LET tok == SubSeq(msg.Text, 1, msg.CmdLen)
                IN IF Len(tok) > 0 /\ Char(tok, 1) = "/" THEN SubSeq(tok, 2, Len(tok)) ELSE tok,
        args |-> TrimSpace(SubSeq(msg.Text, msg.CmdLen + 1, Len(msg.Text)))]

\* models.Message, with CmdLen the Length of a bot_command entity at offset 0
\* (0: no such entity) and Voice standing for msg.Voice != nil || msg.Audio != nil;
\* the update carries along what parseCommand makes of it
Msg(u, c, t, text, cmdLen, caption, photo, voice) ==
  [From |-> u, Chat |-> c, Thread |-> t, Text |-> text, CmdLen |-> cmdLen,
   Caption |-> caption, Photo |-> photo, Voice |-> voice,
   parsed |-> parseCommand([Text |-> text, CmdLen |-> cmdLen])]

\* the updates that carry the command token n
CommandUpdates(n) ==
  {Msg(u, c, t, "/" \o n \o a, Len(n) + 1, "", FALSE, FALSE) :
     u \in Senders, c \in Chats, t \in Topics, a \in CmdArgs}

\* the same, tabulated per recognized command
ByCmd == [n \in CmdNames |-> CommandUpdates(n)]

TextUpdates ==
  {Msg(u, c, t, x, 0, "", FALSE, FALSE) : u \in Senders, c \in Chats, t \in Topics, x \in Texts}

MediaUpdates ==
  {Msg(u, c, t, "", 0, cap, ph, v) :
     u \in Senders, c \in Chats, t \in Topics, cap \in Captions \cup {""},
     ph \in BOOLEAN, v \in BOOLEAN}

\* the updates that reach the code after the command switch
PlainUpdates ==
  TextUpdates \cup MediaUpdates \cup UNION {CommandUpdates(n) : n \in OtherCmds}

Updates == PlainUpdates \cup UNION {CommandUpdates(n) : n \in CmdNames}

\* text := msg.Text; if text == "" { text = msg.Caption }
TextOf(msg) == IF msg.Text = "" THEN msg.Caption ELSE msg.Text

\* userName := msg.From.Username, or FirstName
UserName(u) == IF u = 1 THEN "alice" ELSE "bob"

\* ------------------------------------------------------------ transport
SendCall(text) == [op |-> "send", text |-> text]

\* msg.ID: the updates of a behaviour carry distinct message ids
MessageID(n) == 10 * (n + 1)
\* the id of a sent message: the one after its reply target, 1 without a target
SentID(replyTo) == IF replyTo = 0 THEN 1 ELSE replyTo + 1
\* the calls of a turn, with all that SendMessage and EditMessageText are given
\* (replyTo 0: no ReplyParameters) and the id of the message sent
SendTo(chat, thread, text, replyTo) ==
  [op |-> "send", text |-> text, chat |-> chat, thread |-> thread, replyTo |-> replyTo,
   id |-> SentID(replyTo)]
\* an edit that would go to the message before the one named
EditOfMessageBefore(chat, id, text) ==
  [op |-> "edit", text |-> text, chat |-> chat, id |-> id - 1]

EditOf(chat, id, text) == [op |-> "edit", text |-> text, chat |-> chat, id |-> id]

DenialText == "This bot is configured to work only with specific users in Telegram. But the bot source is open so that you can setup your own bot."

\* ------------------------------------------------------------- the turn
IdleTurn ==
  [pc |-> "idle", From |-> NoUser, chat |-> 0, thread |-> 0, msgID |-> 0, proj |-> "",
   model |-> "", limit |-> 0, hist |-> <<>>, text |-> "", transcribed |-> "",
   audio |-> [calls |-> <<>>, err |-> ""],
   photo |-> FALSE, parts |-> <<>>, inputs |-> <<>>, tools |-> <<>>, when |-> 0,
   progress |-> 0,
   log |-> <<>>, call |-> "none", reply |-> "", err |-> FALSE, ticks |-> 0]

NoEntry == [u \in Users |-> ""]

\* the process after start-up: main.go fills the allow-list, storage.Init opens the
\* database file with what earlier runs left in it, the registries are empty
Start(al, tr, l, q) ==
  /\ allowedUsers = al
  /\ projects = {"demo"}
  /\ mapping = [k \in Keys |-> IF k = <<1, 7>> THEN "demo" ELSE ""]
  /\ models = [p \in Names |-> ""]
  /\ rules = [p \in Names |-> ""]
  /\ webSearch = [p \in Names |-> ""]
  /\ reasoning = [p \in Names |-> ""]
  /\ transcribe = [p \in Names |-> IF p = "demo" THEN tr ELSE ""]
  /\ historyLimits = [p \in Names |-> IF p = "demo" THEN l ELSE 0]
  /\ history = [p \in Names |-> <<>>]
  /\ histSeq = [p \in Names |-> 0]
  /\ histBucket = {}
  /\ pendingModel = NoEntry
  /\ pendingRule = NoEntry
  /\ pendingWebSearch = NoEntry
  /\ pendingReasoning = NoEntry
  /\ pendingTranscribe = NoEntry
  /\ pendingHistLimit = NoEntry
  /\ pendingClearHist = NoEntry
  /\ turn = [h \in Handlers |-> IdleTurn]
  /\ sent = <<>>
  /\ nEvents = 0
  /\ quota = q
  /\ handling = <<>>
  /\ crashed = FALSE
  /\ completion = [pc |-> "idle", model |-> "", calls |-> <<>>, results |-> <<>>]

\* no text is being split apart from the replies of the turns
NoChunking == [text |-> "", size |-> 0, chunks |-> <<>>, done |-> FALSE]

Boot(al, tr, l, q) == Start(al, tr, l, q) /\ chunking = NoChunking

\* ------------------------------------------------------------ the store
\* storage.SaveProject: Put(name, {}) in bucket "projects"
SaveProject(ps, name) == ps \cup {name}

\* a check that would take every name for a registered project
ProjectNamed(name) == name # ""

\* storage.ProjectExists
ProjectExists(name) == name \in projects

\* storage.MapTopic: Put("chat:topic", project)
MapTopic(mp, chatID, topicID, project) == [mp EXCEPT ![<<chatID, topicID>>] = project]

\* a removal that would empty the bucket
UnmapEveryTopic(mp, chatID, topicID) == [k \in DOMAIN mp |-> ""]

\* storage.UnmapTopic: Delete("chat:topic"); deleting an absent key is no error
UnmapTopic(mp, chatID, topicID) == [mp EXCEPT ![<<chatID, topicID>>] = ""]

\* a lookup that would give the registered project for a topic without binding
GetSomeProject(chatID, topicID) ==
  [ok |-> TRUE,
   proj |-> IF mapping[<<chatID, topicID>>] # "" THEN mapping[<<chatID, topicID>>] ELSE "demo"]

\* storage.GetMappedProject: ok = FALSE is the error "no project mapped"
GetMappedProject(chatID, topicID) ==
  [ok |-> mapping[<<chatID, topicID>>] # "", proj |-> mapping[<<chatID, topicID>>]]

\* a Put that would not reach the bucket
SaveNothing(bucket, name, value) == bucket

\* SaveSetting as it would be if the key were ignored
SaveEverywhere(bucket, name, value) == [n \in DOMAIN bucket |-> value]

\* storage.SaveProjectModel, SaveProjectInstruction, SaveHistoryLimit and the
\* three setters of the toggles: Put(name, value) in the setting's bucket
SaveSetting(bucket, name, value) == [bucket EXCEPT ![name] = value]

\* storage.LoadProjectModel, with the handler's fallback to defaultModel
LoadModel(name) == IF models[name] = "" THEN defaultModel ELSE models[name]

\* storage.LoadProjectInstruction ("": none)
LoadProjectInstruction(name) == rules[name]

\* storage.LoadProjectWebSearch: "off" unless set
LoadProjectWebSearch(name) == IF webSearch[name] = "" THEN "off" ELSE webSearch[name]

\* storage.LoadProjectReasoning: "medium" unless set
LoadProjectReasoning(name) == IF reasoning[name] = "" THEN "medium" ELSE reasoning[name]

\* storage.LoadProjectTranscribe: "off" unless set
LoadProjectTranscribe(name) == IF transcribe[name] = "" THEN "off" ELSE transcribe[name]

\* storage.LoadHistoryLimit (0 unless set)
LoadHistoryLimit(name) == historyLimits[name]

\* storage.HistoryMessage, with the bucket key the entry is stored under
HistoryMessage(id, role, whoID, whoName, when, content) ==
  [id |-> id, Role |-> role, WhoID |-> whoID, WhoName |-> whoName, When |-> when,
   Content |-> content]

\* storage.AddHistoryMessage: the key is the bucket's NextSequence
AddHistoryMessage(items, seq, role, whoID, whoName, when, content) ==
  Append(items, HistoryMessage(seq + 1, role, whoID, whoName, when, content))

\* storage.CountProjectHistory
CountProjectHistory(name) == Len(history[name])

\* storage.TrimProjectHistory: delete the first (KeyN - limit) keys
TrimProjectHistory(items, limit) ==
  IF limit <= 0 THEN items
  ELSE LET excess == Len(items) - limit
       IN IF excess <= 0 THEN items ELSE SubSeq(items, excess + 1, Len(items))

\* ------------------------------------------------------------- routing
\* Denied as it would be without the test msg.From == nil
DeniedIfKnown(msg) == allowedUsers # {} /\ msg.From # NoUser /\ msg.From \notin allowedUsers

\* the allow-list check
Denied(msg) == allowedUsers # {} /\ msg.From \notin allowedUsers

\* PendingKind as it would be without the test msg.Text != ""
PendingKindOfSender(msg) ==
  IF pendingModel[msg.From] # "" THEN "model"
  ELSE IF pendingRule[msg.From] # "" THEN "rule"
  ELSE IF pendingWebSearch[msg.From] # "" THEN "websearch"
  ELSE IF pendingReasoning[msg.From] # "" THEN "reasoning"
  ELSE IF pendingTranscribe[msg.From] # "" THEN "transcribe"
  ELSE IF pendingHistLimit[msg.From] # "" THEN "histlimit"
  ELSE IF pendingClearHist[msg.From] # "" THEN "clearhist"
  ELSE "none"

\* PendingKind as it would be with the instruction registry tested first
PendingKindRuleFirst(msg) ==
  IF msg.Text = "" THEN "none"
  ELSE IF pendingRule[msg.From] # "" THEN "rule"
  ELSE IF pendingModel[msg.From] # "" THEN "model"
  ELSE IF pendingWebSearch[msg.From] # "" THEN "websearch"
  ELSE IF pendingReasoning[msg.From] # "" THEN "reasoning"
  ELSE IF pendingTranscribe[msg.From] # "" THEN "transcribe"
  ELSE IF pendingHistLimit[msg.From] # "" THEN "histlimit"
  ELSE IF pendingClearHist[msg.From] # "" THEN "clearhist"
  ELSE "none"

\* which registry, if any, consumes a message of this sender: the order of the
\* if-statements that follow the command switch
PendingKind(msg) ==
  IF msg.Text = "" THEN "none"
  ELSE IF pendingModel[msg.From] # "" THEN "model"
  ELSE IF pendingRule[msg.From] # "" THEN "rule"
  ELSE IF pendingWebSearch[msg.From] # "" THEN "websearch"
  ELSE IF pendingReasoning[msg.From] # "" THEN "reasoning"
  ELSE IF pendingTranscribe[msg.From] # "" THEN "transcribe"
  ELSE IF pendingHistLimit[msg.From] # "" THEN "histlimit"
  ELSE IF pendingClearHist[msg.From] # "" THEN "clearhist"
  ELSE "none"

\* Disposition as it would be if a command the switch does not know were dropped
DispositionKnownOnly(msg) ==
  LET pc == msg.parsed
  IN IF Denied(msg) THEN "deny"
     ELSE IF pc.ok /\ pc.cmd \in CmdNames THEN pc.cmd
     ELSE IF pc.ok THEN "ignore"
     ELSE IF msg.From = NoUser THEN "panic"
     ELSE IF PendingKind(msg) # "none" THEN "answer " \o PendingKind(msg)
     ELSE IF TextOf(msg) = "" /\ ~msg.Photo /\ ~msg.Voice THEN "ignore"
     ELSE IF ~GetMappedProject(msg.Chat, msg.Thread).ok THEN "unbound"
     ELSE "turn"

\* Disposition as it would be with the registries tested before the command switch
DispositionPendingFirst(msg) ==
  LET pc == msg.parsed
  IN IF Denied(msg) THEN "deny"
     ELSE IF msg.From # NoUser /\ PendingKind(msg) # "none" THEN "answer " \o PendingKind(msg)
     ELSE IF pc.ok /\ pc.cmd \in CmdNames THEN pc.cmd
     ELSE IF msg.From = NoUser THEN "panic"
     ELSE IF TextOf(msg) = "" /\ ~msg.Photo /\ ~msg.Voice THEN "ignore"
     ELSE IF ~GetMappedProject(msg.Chat, msg.Thread).ok THEN "unbound"
     ELSE "turn"

\* where HandleUpdate takes the message: the first return it reaches
Disposition(msg) ==
  LET pc == msg.parsed
  IN IF Denied(msg) THEN "deny"
     ELSE IF pc.ok /\ pc.cmd \in CmdNames THEN pc.cmd
     ELSE IF msg.From = NoUser THEN "panic"
     ELSE IF PendingKind(msg) # "none" THEN "answer " \o PendingKind(msg)
     ELSE IF TextOf(msg) = "" /\ ~msg.Photo /\ ~msg.Voice THEN "ignore"
     ELSE IF ~GetMappedProject(msg.Chat, msg.Thread).ok THEN "unbound"
     ELSE "turn"

\* no conversational handler is running
Quiet == \A h \in Handlers : turn[h].pc = "idle"

\* the next update arrives: updates are handled one after the other, as the tests
\* of the handler drive it
Ready == ~crashed /\ nEvents < quota /\ Quiet /\ handling = <<>>

\* what every finished HandleUpdate call leaves behind
Returned(msg, calls) ==
  /\ sent' = calls
  /\ nEvents' = nEvents + 1
  /\ handling' = <<msg>>

Reply(msg, text) == Returned(msg, <<SendCall(text)>>)

\* a nil-pointer dereference of msg.From
Panic(msg) ==
  /\ crashed' = TRUE
  /\ sent' = <<>>
  /\ nEvents' = nEvents + 1
  /\ handling' = <<msg>>

\* the sender is not on the allow-list: one denial message, then return
Deny(msg) ==
  /\ Disposition(msg) = "deny"
  /\ Reply(msg, DenialText)
  /\ UNCHANGED <<allowedUsers, chunking, completion, store, histVars, pendings, turn, quota, crashed>>

\* ------------------------------------------------------------ commands
\* a usage line that would not name the command
UsageOfAnyCommand(cmd) == "Usage: /<command> <projectName>"

Usage(cmd) == "Usage: /" \o cmd \o " <projectName>"

\* frame of a command that touches neither the store nor the registries
ReadOnly == UNCHANGED <<allowedUsers, chunking, completion, store, histVars, pendings, turn, quota, crashed>>

\* case "newproject"
CmdNewProject(msg) ==
  LET args == msg.parsed.args
  IN /\ Disposition(msg) = "newproject"
     /\ IF args = ""
        THEN Reply(msg, Usage("newproject")) /\ UNCHANGED projects
        ELSE /\ projects' = SaveProject(projects, args)
             /\ Reply(msg, "Project '" \o args \o "' registered.")
     /\ UNCHANGED <<allowedUsers, chunking, completion, mapping, models, rules, webSearch, reasoning, transcribe,
                    historyLimits, histVars, pendings, turn, quota, crashed>>

\* case "settopic"
CmdSetTopic(msg) ==
  LET proj == msg.parsed.args
  IN /\ Disposition(msg) = "settopic"
     /\ IF proj = ""
        THEN Reply(msg, Usage("settopic")) /\ UNCHANGED mapping
        ELSE IF ~ProjectExists(proj)
        THEN Reply(msg, "Project not found.") /\ UNCHANGED mapping
        ELSE /\ mapping' = MapTopic(mapping, msg.Chat, msg.Thread, proj)
             /\ Reply(msg, "Topic mapped to project '" \o proj \o "'.")
     /\ UNCHANGED <<allowedUsers, chunking, completion, projects, models, rules, webSearch, reasoning, transcribe,
                    historyLimits, histVars, pendings, turn, quota, crashed>>

\* case "unsettopic"
CmdUnsetTopic(msg) ==
  /\ Disposition(msg) = "unsettopic"
  /\ IF msg.Thread = 0
     THEN Reply(msg, "Must be in a topic thread.") /\ UNCHANGED mapping
     ELSE /\ mapping' = UnmapTopic(mapping, msg.Chat, msg.Thread)
          /\ Reply(msg, "Topic unmapped.")
  /\ UNCHANGED <<allowedUsers, chunking, completion, projects, models, rules, webSearch, reasoning, transcribe,
                 historyLimits, histVars, pendings, turn, quota, crashed>>

\* Register as it would be with one registry slot per user: the new action takes
\* the place of whatever the user had pending
RegisterAlone(cmd, u, proj) ==
  /\ pendingModel' = [pendingModel EXCEPT ![u] = IF cmd = "setmodel" THEN proj ELSE ""]
  /\ pendingRule' = [pendingRule EXCEPT ![u] = IF cmd = "setrule" THEN proj ELSE ""]
  /\ pendingWebSearch' = [pendingWebSearch EXCEPT ![u] = IF cmd = "setwebsearch" THEN proj ELSE ""]
  /\ pendingReasoning' = [pendingReasoning EXCEPT ![u] = IF cmd = "setreasoning" THEN proj ELSE ""]
  /\ pendingTranscribe' =
       [pendingTranscribe EXCEPT ![u] = IF cmd = "settranscribe" THEN proj ELSE ""]
  /\ pendingHistLimit' =
       [pendingHistLimit EXCEPT ![u] = IF cmd = "sethistorylimit" THEN proj ELSE ""]
  /\ pendingClearHist' = [pendingClearHist EXCEPT ![u] = IF cmd = "clearhistory" THEN proj ELSE ""]

\* pendingX[msg.From.ID] = proj, for the registry of the command
Register(cmd, u, proj) ==
  /\ pendingModel' = IF cmd = "setmodel" THEN [pendingModel EXCEPT ![u] = proj] ELSE pendingModel
  /\ pendingRule' = IF cmd = "setrule" THEN [pendingRule EXCEPT ![u] = proj] ELSE pendingRule
  /\ pendingWebSearch' =
       IF cmd = "setwebsearch" THEN [pendingWebSearch EXCEPT ![u] = proj] ELSE pendingWebSearch
  /\ pendingReasoning' =
       IF cmd = "setreasoning" THEN [pendingReasoning EXCEPT ![u] = proj] ELSE pendingReasoning
  /\ pendingTranscribe' =
       IF cmd = "settranscribe" THEN [pendingTranscribe EXCEPT ![u] = proj] ELSE pendingTranscribe
  /\ pendingHistLimit' =
       IF cmd = "sethistorylimit" THEN [pendingHistLimit EXCEPT ![u] = proj] ELSE pendingHistLimit
  /\ pendingClearHist' =
       IF cmd = "clearhistory" THEN [pendingClearHist EXCEPT ![u] = proj] ELSE pendingClearHist

\* the prompt a set command answers with
Prompt(cmd, proj) ==
  CASE cmd = "setmodel" -> "Enter model name"
    [] cmd = "setrule" -> "Enter your custom instruction"
    [] cmd = "setwebsearch" -> "Enter web search setting (high, medium, low, off)."
    [] cmd = "setreasoning" -> "Enter reasoning effort (minimal, low, medium, high)."
    [] cmd = "settranscribe" -> "Enable audio transcription? (on, off)"
    [] cmd = "sethistorylimit" -> "Enter new history limit (0 to disable)."
    [] cmd = "clearhistory" ->
         "The " \o Itoa(CountProjectHistory(proj)) \o " messages will be removed from the '"
           \o proj \o "' project. Please type the word 'confirm' to continue."

\* the body shared by the cases "setmodel", "setrule", "setwebsearch", "setreasoning",
\* "settranscribe", "sethistorylimit" and "clearhistory"
SetCommand(msg, cmd) ==
  LET proj == msg.parsed.args
  IN /\ Disposition(msg) = cmd
     /\ IF proj = ""
        THEN Reply(msg, Usage(cmd)) /\ UNCHANGED <<pendings, crashed>>
        ELSE IF ~ProjectExists(proj)
        THEN Reply(msg, "Project not found.") /\ UNCHANGED <<pendings, crashed>>
        ELSE IF msg.From = NoUser
        THEN Panic(msg) /\ UNCHANGED pendings
        ELSE /\ Register(cmd, msg.From, proj)
             /\ Reply(msg, Prompt(cmd, proj))
             /\ UNCHANGED crashed
     /\ UNCHANGED <<allowedUsers, chunking, completion, store, histVars, turn, quota>>

CmdSetModel(msg) == SetCommand(msg, "setmodel")
CmdSetRule(msg) == SetCommand(msg, "setrule")
CmdSetWebSearch(msg) == SetCommand(msg, "setwebsearch")
CmdSetReasoning(msg) == SetCommand(msg, "setreasoning")
CmdSetTranscribe(msg) == SetCommand(msg, "settranscribe")
CmdSetHistoryLimit(msg) == SetCommand(msg, "sethistorylimit")
CmdClearHistory(msg) == SetCommand(msg, "clearhistory")

\* case "showrule" (the one show command that does not look the project up)
CmdShowRule(msg) ==
  LET proj == msg.parsed.args
  IN /\ Disposition(msg) = "showrule"
     /\ IF proj = "" THEN Reply(msg, Usage("showrule"))
        ELSE IF LoadProjectInstruction(proj) = ""
        THEN Reply(msg, "No instruction set for project '" \o proj \o "'.")
        ELSE Reply(msg, "Instruction for project '" \o proj \o "':\n" \o LoadProjectInstruction(proj))
     /\ ReadOnly

\* the first 30 runes of a text
Snippet(text) == IF Len(text) > 30 THEN SubSeq(text, 1, 30) ELSE text

RECURSIVE RenderHistory(_)
\* one "<when> <who>:\n<snippet>" block per stored entry, blank lines between
RenderHistory(items) ==
  IF Len(items) = 0 THEN ""
  ELSE Itoa(items[1].When) \o " " \o items[1].WhoName \o ":\n" \o Snippet(items[1].Content)
         \o (IF Len(items) = 1 THEN "" ELSE "\n\n" \o RenderHistory(Tail(items)))

HistoryMessagesText(proj) ==
  IF Len(history[proj]) = 0 THEN "No stored messages." ELSE RenderHistory(history[proj])

\* the answers of the cases "websearch", "reasoning", "transcribe", "history" and
\* "historymessages"
ShowText(cmd, proj) ==
  CASE cmd = "websearch" ->
         "Web search for project '" \o proj \o "' is " \o LoadProjectWebSearch(proj) \o "."
    [] cmd = "reasoning" ->
         "Reasoning effort for project '" \o proj \o "' is " \o LoadProjectReasoning(proj) \o "."
    [] cmd = "transcribe" ->
         "Audio transcription for project '" \o proj \o "' is "
           \o LoadProjectTranscribe(proj) \o "."
    [] cmd = "history" ->
         "For project '" \o proj \o "' history limit is " \o Itoa(LoadHistoryLimit(proj))
           \o " and there are " \o Itoa(CountProjectHistory(proj)) \o " stored messages."
    [] cmd = "historymessages" -> HistoryMessagesText(proj)

\* the body shared by the cases "websearch", "reasoning", "transcribe", "history" and
\* "historymessages"
ShowCommand(msg, cmd) ==
  LET proj == msg.parsed.args
  IN /\ Disposition(msg) = cmd
     /\ IF proj = "" THEN Reply(msg, Usage(cmd))
        ELSE IF ~ProjectExists(proj) THEN Reply(msg, "Project not found.")
        ELSE Reply(msg, ShowText(cmd, proj))
     /\ ReadOnly

CmdWebSearch(msg) == ShowCommand(msg, "websearch")
CmdReasoning(msg) == ShowCommand(msg, "reasoning")
CmdTranscribe(msg) == ShowCommand(msg, "transcribe")
CmdHistory(msg) == ShowCommand(msg, "history")
CmdHistoryMessages(msg) == ShowCommand(msg, "historymessages")

\* bucket "projects" in key order
NameOrder == <<"demo", "other">>

RECURSIVE JoinNames(_, _)
JoinNames(i, first) ==
  IF i > Len(NameOrder) THEN ""
  ELSE IF NameOrder[i] \in projects
  THEN (IF first THEN "" ELSE ", ") \o NameOrder[i] \o JoinNames(i + 1, FALSE)
  ELSE JoinNames(i + 1, first)

\* case "listprojects"
CmdListProjects(msg) ==
  /\ Disposition(msg) = "listprojects"
  /\ Reply(msg, "Projects: " \o JoinNames(1, TRUE))
  /\ ReadOnly

\* ---------------------------------------------------- pending follow-ups
\* Consume as it would be without the delete
ConsumeNothing(kind, u) == UNCHANGED pendings

\* delete(pendingX, msg.From.ID), for the registry that matched
Consume(kind, u) ==
  /\ pendingModel' = IF kind = "model" THEN [pendingModel EXCEPT ![u] = ""] ELSE pendingModel
  /\ pendingRule' = IF kind = "rule" THEN [pendingRule EXCEPT ![u] = ""] ELSE pendingRule
  /\ pendingWebSearch' =
       IF kind = "websearch" THEN [pendingWebSearch EXCEPT ![u] = ""] ELSE pendingWebSearch
  /\ pendingReasoning' =
       IF kind = "reasoning" THEN [pendingReasoning EXCEPT ![u] = ""] ELSE pendingReasoning
  /\ pendingTranscribe' =
       IF kind = "transcribe" THEN [pendingTranscribe EXCEPT ![u] = ""] ELSE pendingTranscribe
  /\ pendingHistLimit' =
       IF kind = "histlimit" THEN [pendingHistLimit EXCEPT ![u] = ""] ELSE pendingHistLimit
  /\ pendingClearHist' =
       IF kind = "clearhist" THEN [pendingClearHist EXCEPT ![u] = ""] ELSE pendingClearHist

\* ValidWebSearch as it would be without the default case of the switch
AcceptsAnything(val) == TRUE

\* the values the three enumerated settings accept
ValidWebSearch(val) == val \in {"high", "medium", "low", "off"}
ValidReasoning(val) == val \in {"minimal", "low", "medium", "high"}
ValidTranscribe(val) == val \in {"on", "off"}

\* if proj, ok := pendingModel[msg.From.ID]; ok && msg.Text != ""
AnswerModel(msg) ==
  /\ Disposition(msg) = "answer model"
  /\ LET proj == pendingModel[msg.From]
         model == TrimSpace(msg.Text)
     IN /\ Consume("model", msg.From)
        /\ models' = SaveSetting(models, proj, model)
        /\ Reply(msg, "Project '" \o proj \o "' uses model '" \o model \o "'.")
  /\ UNCHANGED <<allowedUsers, chunking, completion, projects, mapping, rules, webSearch, reasoning, transcribe,
                 historyLimits, histVars, turn, quota, crashed>>

\* if proj, ok := pendingRule[msg.From.ID]; ok && msg.Text != ""
AnswerRule(msg) ==
  /\ Disposition(msg) = "answer rule"
  /\ LET proj == pendingRule[msg.From]
         instr == TrimSpace(msg.Text)
     IN /\ Consume("rule", msg.From)
        /\ rules' = SaveSetting(rules, proj, instr)
        /\ Reply(msg, "Instruction saved.")
  /\ UNCHANGED <<allowedUsers, chunking, completion, projects, mapping, models, webSearch, reasoning, transcribe,
                 historyLimits, histVars, turn, quota, crashed>>

\* if proj, ok := pendingWebSearch[msg.From.ID]; ok && msg.Text != ""
AnswerWebSearch(msg) ==
  /\ Disposition(msg) = "answer websearch"
  /\ LET proj == pendingWebSearch[msg.From]
         val == ToLower(TrimSpace(msg.Text))
     IN /\ Consume("websearch", msg.From)
        /\ IF ValidWebSearch(val)
           THEN /\ webSearch' = SaveSetting(webSearch, proj, val)
                /\ Reply(msg, "Web search for project '" \o proj \o "' set to " \o val \o ".")
           ELSE /\ UNCHANGED webSearch
                /\ Reply(msg, "Please enter one of: high, medium, low, off.")
  /\ UNCHANGED <<allowedUsers, chunking, completion, projects, mapping, models, rules, reasoning, transcribe,
                 historyLimits, histVars, turn, quota, crashed>>

\* if proj, ok := pendingReasoning[msg.From.ID]; ok && msg.Text != ""
AnswerReasoning(msg) ==
  /\ Disposition(msg) = "answer reasoning"
  /\ LET proj == pendingReasoning[msg.From]
         val == ToLower(TrimSpace(msg.Text))
     IN /\ Consume("reasoning", msg.From)
        /\ IF ValidReasoning(val)
           THEN /\ reasoning' = SaveSetting(reasoning, proj, val)
                /\ Reply(msg, "Reasoning effort for project '" \o proj \o "' set to " \o val \o ".")
           ELSE /\ UNCHANGED reasoning
                /\ Reply(msg, "Please enter one of: minimal, low, medium, high.")
  /\ UNCHANGED <<allowedUsers, chunking, completion, projects, mapping, models, rules, webSearch, transcribe,
                 historyLimits, histVars, turn, quota, crashed>>

\* if proj, ok := pendingTranscribe[msg.From.ID]; ok && msg.Text != ""
AnswerTranscribe(msg) ==
  /\ Disposition(msg) = "answer transcribe"
  /\ LET proj == pendingTranscribe[msg.From]
         val == ToLower(TrimSpace(msg.Text))
     IN /\ Consume("transcribe", msg.From)
        /\ IF ValidTranscribe(val)
           THEN /\ transcribe' = SaveSetting(transcribe, proj, val)
                /\ Reply(msg, "Audio transcription for project '" \o proj \o "' set to " \o val \o ".")
           ELSE /\ UNCHANGED transcribe
                /\ Reply(msg, "Please enter one of: on, off.")
  /\ UNCHANGED <<allowedUsers, chunking, completion, projects, mapping, models, rules, webSearch, reasoning,
                 historyLimits, histVars, turn, quota, crashed>>

\* if proj, ok := pendingHistLimit[msg.From.ID]; ok && msg.Text != ""
AnswerHistLimit(msg) ==
  /\ Disposition(msg) = "answer histlimit"
  /\ LET proj == pendingHistLimit[msg.From]
         limit == Atoi(TrimSpace(msg.Text))
     IN /\ Consume("histlimit", msg.From)
        /\ IF ~limit.ok \/ limit.val < 0
           THEN /\ UNCHANGED historyLimits
                /\ Reply(msg, "Please enter a non-negative integer.")
           ELSE /\ historyLimits' = SaveSetting(historyLimits, proj, limit.val)
                /\ Reply(msg, "History limit for project '" \o proj \o "' set to "
                           \o Itoa(limit.val) \o ".")
  /\ UNCHANGED <<allowedUsers, chunking, completion, projects, mapping, models, rules, webSearch, reasoning,
                 transcribe, histVars, turn, quota, crashed>>

\* if proj, ok := pendingClearHist[msg.From.ID]; ok && msg.Text != ""
\* storage.ClearProjectHistory deletes the project's bucket, which fails when there is none
AnswerClearHist(msg) ==
  /\ Disposition(msg) = "answer clearhist"
  /\ LET proj == pendingClearHist[msg.From]
         resp == ToLower(TrimSpace(msg.Text))
     IN /\ Consume("clearhist", msg.From)
        /\ IF resp # "confirm"
           THEN /\ UNCHANGED histVars
                /\ Reply(msg, "Cancelled.")
           ELSE IF proj \notin histBucket
           THEN /\ UNCHANGED histVars
                /\ Reply(msg, "Clear error: bucket not found")
           ELSE /\ history' = [history EXCEPT ![proj] = <<>>]
                /\ histSeq' = [histSeq EXCEPT ![proj] = 0]
                /\ histBucket' = histBucket \ {proj}
                /\ Reply(msg, "Cleared " \o Itoa(CountProjectHistory(proj))
                           \o " messages from project '" \o proj \o "'.")
  /\ UNCHANGED <<allowedUsers, chunking, completion, store, turn, quota, crashed>>

\* pendingModel[msg.From.ID] with msg.From == nil
NilSender(msg) ==
  /\ Disposition(msg) = "panic"
  /\ Panic(msg)
  /\ UNCHANGED <<allowedUsers, chunking, completion, store, histVars, pendings, turn, quota>>

\* nothing to forward: no text, no caption, no photo, no voice, no audio
IgnoreEmpty(msg) ==
  /\ Disposition(msg) = "ignore"
  /\ Returned(msg, <<>>)
  /\ ReadOnly

\* storage.GetMappedProject fails: the event is not conversational
NoBinding(msg) ==
  /\ Disposition(msg) = "unbound"
  /\ Returned(msg, <<>>)
  /\ ReadOnly

\* ------------------------------------------------ the conversational turn
maxMessageLen == 4000

RECURSIVE Repeat(_, _)
\* strings.Repeat
Repeat(s, n) ==
  IF n = 0 THEN ""
  ELSE IF n % 2 = 1 THEN s \o Repeat(s, n - 1)
  ELSE LET half == Repeat(s, n \div 2) IN half \o half

\* what openAITranscribe may give for a voice message (besides no text and an error),
\* and openAIResponses for a request: no text, a short text, and a text of three chunks
Transcripts == {"spoken"}
Replies == {"", "pong", Repeat("a", 9001)}
ApiErrors == {"boom"}

\* a split that would keep the full chunks only
splitFullChunks(text, size) ==
  [i \in 1..(Len(text) \div size) |-> SubSeq(text, (i - 1) * size + 1, i * size)]

RECURSIVE splitMessage(_, _)
\* splitMessage: chunks of at most size runes, none for the empty text; a text is
\* its sequence of runes
splitMessage(text, size) ==
  IF Len(text) = 0 THEN <<>>
  ELSE LET end == IF Len(text) < size THEN Len(text) ELSE size
       IN <<SubSeq(text, 1, end)>> \o splitMessage(SubSeq(text, end + 1, Len(text)), size)

\* the handler slot a new turn runs in
FreeSlot(h) == turn[h].pc = "idle" /\ \A g \in Handlers : g < h => turn[g].pc # "idle"

\* lines 580-611: the content parts of the user entry of the request; with a history
\* limit the text and the transcript go into one part that is always there
RequestParts(limit, text, transcribed, image) ==
  (IF limit > 0 THEN <<"meta">>
   ELSE (IF text # "" THEN <<"text">> ELSE <<>>)
          \o (IF transcribed # "" THEN <<"transcript">> ELSE <<>>))
    \o (IF image THEN <<"image">> ELSE <<>>)

\* the history part of a request that would carry the stored entries whatever the limit
StoredInputs(limit, hist) ==
  LET kept == SelectSeq(hist, LAMBDA e : e.Content # "")
  IN [i \in 1..Len(kept) |->
        [kind |-> "history", role |-> kept[i].Role,
         content |-> Itoa(kept[i].When) \o " " \o kept[i].WhoName \o ":\n" \o kept[i].Content]]

\* lines 538-547: with a history limit, one input item per stored entry that has
\* content, oldest first, its text headed by the entry's time and author
HistoryInputs(limit, hist) ==
  LET kept == SelectSeq(hist, LAMBDA e : e.Content # "")
  IN IF limit > 0
     THEN [i \in 1..Len(kept) |->
             [kind |-> "history", role |-> kept[i].Role,
              content |-> Itoa(kept[i].When) \o " " \o kept[i].WhoName \o ":\n"
                            \o kept[i].Content]]
     ELSE <<>>

\* a request that would put the instruction after the history
InputsHistoryFirst(instr, limit, hist, parts) ==
  HistoryInputs(limit, hist)
    \o (IF instr # "" THEN <<[kind |-> "instruction", role |-> "system", content |-> instr]>>
        ELSE <<>>)
    \o <<[kind |-> "message", role |-> "user", parts |-> parts]>>

\* lines 528-531, 538-547 and 612: the input items of the request: the instruction
\* if there is one, the history, and the user's message with its parts
RequestInputs(instr, limit, hist, parts) ==
  (IF instr # "" THEN <<[kind |-> "instruction", role |-> "system", content |-> instr]>>
   ELSE <<>>)
    \o HistoryInputs(limit, hist)
    \o <<[kind |-> "message", role |-> "user", parts |-> parts]>>

\* a handler that would hand the body to the transcription although the download failed
TranscribeWhatever(setting, voice, fileErr, getErr, res) ==
  IF setting = "on" /\ voice
  THEN IF fileErr THEN [calls |-> <<"GetFile">>, err |-> "lookup", text |-> ""]
       ELSE [calls |-> <<"GetFile", "httpGet", "openAITranscribe">>,
             err |-> IF getErr THEN "download" ELSE IF res.err THEN "transcription" ELSE "",
             text |-> IF res.err THEN "" ELSE res.text]
  ELSE [calls |-> <<>>, err |-> "", text |-> ""]

\* lines 553-579: with transcription on and a voice or audio attachment the file is
\* looked up, downloaded and transcribed; each step is taken only if the one before
\* gave no error, an error is logged, and transcribed stays empty unless all succeed
TranscribeAudio(setting, voice, fileErr, getErr, res) ==
  IF setting = "on" /\ voice
  THEN IF fileErr THEN [calls |-> <<"GetFile">>, err |-> "lookup", text |-> ""]
       ELSE IF getErr THEN [calls |-> <<"GetFile", "httpGet">>, err |-> "download", text |-> ""]
       ELSE [calls |-> <<"GetFile", "httpGet", "openAITranscribe">>,
             err |-> IF res.err THEN "transcription" ELSE "",
             text |-> IF res.err THEN "" ELSE res.text]
  ELSE [calls |-> <<>>, err |-> "", text |-> ""]

\* a request whose web-search tool would always ask for the largest context
WebSearchToolsHigh(setting) ==
  IF setting # "off" THEN <<[type |-> "web_search_preview", size |-> "high"]>> ELSE <<>>

\* lines 661-684: the tools of the request: a web-search tool unless the setting is
\* "off", its context size that of the setting, high for a setting the switch does
\* not know
WebSearchTools(setting) ==
  IF setting # "off"
  THEN <<[type |-> "web_search_preview",
          size |-> CASE setting = "medium" -> "medium"
                     [] setting = "low" -> "low"
                     [] OTHER -> "high"]>>
  ELSE <<>>

\* the first history write the handler reaches from the given point on, or the
\* progress message when none is left (lines 613-646)
AfterStart(t) ==
  IF t.limit > 0 /\ t.text # "" THEN "addText"
  ELSE IF t.limit > 0 /\ t.transcribed # "" THEN "addTranscript"
  ELSE IF t.limit > 0 /\ t.photo THEN "addImage"
  ELSE "progress"

\* AfterText as it would be if the handler wrote the text entry only
AfterTextOnly(t) == "progress"

AfterText(t) ==
  IF t.transcribed # "" THEN "addTranscript" ELSE IF t.photo THEN "addImage" ELSE "progress"

\* AfterTranscript as it would be if no entry were written for a photo
AfterTranscriptLast(t) == "progress"

AfterTranscript(t) == IF t.photo THEN "addImage" ELSE "progress"

\* one AddHistoryMessage transaction of handler h on its project
WriteHistory(h, role, whoID, whoName, content) ==
  LET proj == turn[h].proj
  IN /\ history' = [history EXCEPT ![proj] =
                      AddHistoryMessage(history[proj], histSeq[proj], role, whoID, whoName,
                                        turn[h].when, content)]
     /\ histSeq' = [histSeq EXCEPT ![proj] = histSeq[proj] + 1]
     /\ histBucket' = histBucket \cup {proj}

\* lines 519-612: resolve the project, load its settings and history, transcribe,
\* look the photo up and build the request
TurnStart(h, msg) ==
  /\ Disposition(msg) = "turn"
  /\ FreeSlot(h)
  /\ LET proj == GetMappedProject(msg.Chat, msg.Thread).proj
     IN \E a \in {TranscribeAudio(LoadProjectTranscribe(proj), msg.Voice, fileErr, getErr, res) :
                     fileErr \in BOOLEAN, getErr \in BOOLEAN,
                     res \in {[err |-> FALSE, text |-> x] : x \in Transcripts \cup {""}}
                               \cup {[err |-> TRUE, text |-> ""]}},
           img \in (IF msg.Photo THEN BOOLEAN ELSE {FALSE}) :
          LET tr == a.text
              t == [pc |-> "start", From |-> msg.From, chat |-> msg.Chat,
                    thread |-> msg.Thread, msgID |-> MessageID(nEvents), proj |-> proj,
                    model |-> LoadModel(proj), limit |-> LoadHistoryLimit(proj),
                    hist |-> history[proj], text |-> TextOf(msg), transcribed |-> tr,
                    audio |-> [calls |-> a.calls, err |-> a.err], photo |-> msg.Photo,
                    parts |-> RequestParts(LoadHistoryLimit(proj), TextOf(msg), tr, img),
                    inputs |-> RequestInputs(LoadProjectInstruction(proj),
                                             LoadHistoryLimit(proj), history[proj],
                                             RequestParts(LoadHistoryLimit(proj), TextOf(msg),
                                                          tr, img)),
                    tools |-> WebSearchTools(LoadProjectWebSearch(proj)),
                    when |-> nEvents, progress |-> 0, log |-> <<>>,
                    call |-> "none", reply |-> "", err |-> FALSE, ticks |-> 0]
          IN turn' = [turn EXCEPT ![h] = [t EXCEPT !.pc = AfterStart(t)]]
  /\ sent' = <<>>
  /\ nEvents' = nEvents + 1
  /\ handling' = <<msg>>
  /\ UNCHANGED <<allowedUsers, chunking, completion, store, histVars, pendings, quota, crashed>>

\* lines 615-623: the entry of the user's text
AddText(h) ==
  /\ ~crashed
  /\ turn[h].pc = "addText"
  /\ WriteHistory(h, "user", turn[h].From, UserName(turn[h].From), turn[h].text)
  /\ turn' = [turn EXCEPT ![h].pc = AfterText(turn[h])]
  /\ sent' = <<>>
  /\ UNCHANGED <<allowedUsers, chunking, completion, store, pendings, nEvents, quota, handling, crashed>>

\* lines 624-632: the entry of the transcript
AddTranscript(h) ==
  /\ ~crashed
  /\ turn[h].pc = "addTranscript"
  /\ WriteHistory(h, "user", turn[h].From, UserName(turn[h].From),
                  "(Transcribed audio) " \o turn[h].transcribed)
  /\ turn' = [turn EXCEPT ![h].pc = AfterTranscript(turn[h])]
  /\ sent' = <<>>
  /\ UNCHANGED <<allowedUsers, chunking, completion, store, pendings, nEvents, quota, handling, crashed>>

\* lines 633-641: the placeholder entry of the photo
AddImage(h) ==
  /\ ~crashed
  /\ turn[h].pc = "addImage"
  /\ WriteHistory(h, "user", turn[h].From, UserName(turn[h].From),
                  "(User has attached some image)")
  /\ turn' = [turn EXCEPT ![h].pc = "progress"]
  /\ sent' = <<>>
  /\ UNCHANGED <<allowedUsers, chunking, completion, store, pendings, nEvents, quota, handling, crashed>>

\* lines 646-651: the progress message, a reply to the user's message; its id is kept
SendProgress(h) ==
  /\ ~crashed
  /\ turn[h].pc = "progress"
  /\ LET t == turn[h]
         m == SendTo(t.chat, t.thread, "Sending to ChatGPT...", t.msgID)
     IN /\ sent' = <<m>>
        /\ turn' = [turn EXCEPT ![h].pc = "dispatch", ![h].progress = m.id,
                                ![h].log = Append(t.log, m)]
  /\ UNCHANGED <<allowedUsers, chunking, completion, store, histVars, pendings, nEvents, quota, handling, crashed>>

\* a handler that would start the call without having sent the progress message
DispatchUnordered(t) == t.pc \in {"progress", "dispatch"}

\* line 660 follows line 646: the call is started once the progress message is sent
DispatchReady(t) == t.pc = "dispatch"

\* lines 657-697: go func: the completion call runs beside the handler, which
\* goes on to its wait loop
Dispatch(h) ==
  /\ ~crashed
  /\ DispatchReady(turn[h])
  /\ turn[h].call = "none"
  /\ turn' = [turn EXCEPT ![h].pc = "waiting", ![h].call = "running"]
  /\ sent' = <<>>
  /\ UNCHANGED <<allowedUsers, chunking, completion, store, histVars, pendings, nEvents, quota, handling, crashed>>

\* lines 691-696: openAIResponses returns and the goroutine puts the result on resultCh
CallReturns(h) ==
  /\ ~crashed
  /\ turn[h].call = "running"
  /\ \/ \E r \in Replies :
          turn' = [turn EXCEPT ![h].call = "returned", ![h].reply = r, ![h].err = FALSE]
     \/ \E e \in ApiErrors :
          turn' = [turn EXCEPT ![h].call = "returned", ![h].reply = "OpenAI error: " \o e,
                               ![h].err = TRUE]
  /\ sent' = <<>>
  /\ UNCHANGED <<allowedUsers, chunking, completion, store, histVars, pendings, nEvents, quota, handling, crashed>>

\* a ticker that would give the wait up
TickEndsWait(t) == [IdleTurn EXCEPT !.ticks = t.ticks + 1]

\* lines 707-716: what a tick leaves of the turn: the wait goes on
Ticked(t) == [t EXCEPT !.ticks = t.ticks + 1]

\* lines 707-716: the ticker fires while the handler waits
Tick(h) ==
  /\ ~crashed
  /\ turn[h].pc = "waiting"
  /\ turn[h].ticks < MaxTicks
  /\ LET t == turn[h]
         e == EditOf(t.chat, t.progress, "Waiting " \o Itoa(10 * (t.ticks + 1))
                                           \o " seconds for ChatGPT answer...")
     IN /\ sent' = <<e>>
        /\ turn' = [turn EXCEPT ![h] = [Ticked(t) EXCEPT !.log = Append(t.log, e)]]
  /\ UNCHANGED <<allowedUsers, chunking, completion, store, histVars, pendings, nEvents, quota, handling, crashed>>

\* a delivery that would send every chunk as a new message
DeliverAllNew(t, chunks) ==
  [i \in 1..Len(chunks) |-> SendTo(t.chat, t.thread, chunks[i], 0)]

\* lines 749-760: the edit and the sends that deliver a reply: the first chunk
\* replaces the progress message, the others are new messages without a reply target
Deliver(t, chunks) ==
  <<EditOf(t.chat, t.progress, chunks[1])>>
    \o [i \in 1..(Len(chunks) - 1) |-> SendTo(t.chat, t.thread, chunks[i + 1], 0)]

\* the error report as it would be if the text were sent as a new message
ErrorSent(t) == <<SendTo(t.chat, t.thread, t.reply, 0)>>

\* lines 722-726: the error text replaces the progress message
ErrorReport(t) == <<EditOf(t.chat, t.progress, t.reply)>>

\* what is sent for an empty reply if the progress message were blanked
BlankEdit(t) == <<EditOf(t.chat, t.progress, "")>>

\* lines 746-748: nothing is sent for a reply without chunks
EmptyReport(t) == <<>>

\* lines 704-760: the handler receives the result and reports it to the chat
Reconcile(h) ==
  /\ ~crashed
  /\ turn[h].pc = "waiting"
  /\ turn[h].call = "returned"
  /\ LET t == turn[h]
         chunks == splitMessage(t.reply, maxMessageLen)
         calls == IF t.err THEN ErrorReport(t)
                  ELSE IF Len(chunks) = 0 THEN EmptyReport(t) ELSE Deliver(t, chunks)
     IN /\ sent' = calls
        /\ turn' = [turn EXCEPT ![h] =
                      IF t.limit > 0 /\ (t.err \/ Len(chunks) > 0)
                      THEN [t EXCEPT !.pc = "addReply", !.log = t.log \o calls]
                      ELSE IdleTurn]
  /\ UNCHANGED <<allowedUsers, chunking, completion, store, histVars, pendings, nEvents, quota, handling, crashed>>

\* lines 728-734 and 762-768: the assistant entry, the reply or the error text
AddReply(h) ==
  /\ ~crashed
  /\ turn[h].pc = "addReply"
  /\ LET proj == turn[h].proj
     IN /\ history' = [history EXCEPT ![proj] =
                         AddHistoryMessage(history[proj], histSeq[proj], "assistant", 0,
                                           "ChatGPT " \o turn[h].model, nEvents, turn[h].reply)]
        /\ histSeq' = [histSeq EXCEPT ![proj] = histSeq[proj] + 1]
        /\ histBucket' = histBucket \cup {proj}
  /\ turn' = [turn EXCEPT ![h].pc = "trim"]
  /\ sent' = <<>>
  /\ UNCHANGED <<allowedUsers, chunking, completion, store, pendings, nEvents, quota, handling, crashed>>

\* lines 735 and 769: storage.TrimProjectHistory(proj, limit), then the handler returns
Trim(h) ==
  /\ ~crashed
  /\ turn[h].pc = "trim"
  /\ history' = [history EXCEPT ![turn[h].proj] =
                   TrimProjectHistory(history[turn[h].proj], turn[h].limit)]
  /\ turn' = [turn EXCEPT ![h] = IdleTurn]
  /\ sent' = <<>>
  /\ UNCHANGED <<allowedUsers, chunking, completion, store, histSeq, histBucket, pendings, nEvents, quota, handling,
                 crashed>>

\* ------------------------------------------------------------ behaviours
\* one HandleUpdate call up to its return or, for a turn, up to its first history write
Receive ==
  \/ Ready /\ \E msg \in Updates : Deny(msg)
  \/ Ready /\ \E msg \in ByCmd["newproject"] : CmdNewProject(msg)
  \/ Ready /\ \E msg \in ByCmd["settopic"] : CmdSetTopic(msg)
  \/ Ready /\ \E msg \in ByCmd["unsettopic"] : CmdUnsetTopic(msg)
  \/ Ready /\ \E msg \in ByCmd["setmodel"] : CmdSetModel(msg)
  \/ Ready /\ \E msg \in ByCmd["setrule"] : CmdSetRule(msg)
  \/ Ready /\ \E msg \in ByCmd["showrule"] : CmdShowRule(msg)
  \/ Ready /\ \E msg \in ByCmd["websearch"] : CmdWebSearch(msg)
  \/ Ready /\ \E msg \in ByCmd["setwebsearch"] : CmdSetWebSearch(msg)
  \/ Ready /\ \E msg \in ByCmd["reasoning"] : CmdReasoning(msg)
  \/ Ready /\ \E msg \in ByCmd["setreasoning"] : CmdSetReasoning(msg)
  \/ Ready /\ \E msg \in ByCmd["transcribe"] : CmdTranscribe(msg)
  \/ Ready /\ \E msg \in ByCmd["settranscribe"] : CmdSetTranscribe(msg)
  \/ Ready /\ \E msg \in ByCmd["history"] : CmdHistory(msg)
  \/ Ready /\ \E msg \in ByCmd["historymessages"] : CmdHistoryMessages(msg)
  \/ Ready /\ \E msg \in ByCmd["sethistorylimit"] : CmdSetHistoryLimit(msg)
  \/ Ready /\ \E msg \in ByCmd["clearhistory"] : CmdClearHistory(msg)
  \/ Ready /\ \E msg \in ByCmd["listprojects"] : CmdListProjects(msg)
  \/ Ready /\ \E msg \in Updates : AnswerModel(msg)
  \/ Ready /\ \E msg \in Updates : AnswerRule(msg)
  \/ Ready /\ \E msg \in Updates : AnswerWebSearch(msg)
  \/ Ready /\ \E msg \in Updates : AnswerReasoning(msg)
  \/ Ready /\ \E msg \in Updates : AnswerTranscribe(msg)
  \/ Ready /\ \E msg \in Updates : AnswerHistLimit(msg)
  \/ Ready /\ \E msg \in Updates : AnswerClearHist(msg)
  \/ Ready /\ \E msg \in Updates : NilSender(msg)
  \/ Ready /\ \E msg \in Updates : IgnoreEmpty(msg)
  \/ Ready /\ \E msg \in Updates : NoBinding(msg)
  \/ Ready /\ \E msg \in Updates : \E h \in Handlers : TurnStart(h, msg)

\* one step of a running turn
Proceed ==
  \E h \in Handlers :
    \/ AddText(h)
    \/ AddTranscript(h)
    \/ AddImage(h)
    \/ SendProgress(h)
    \/ Dispatch(h)
    \/ CallReturns(h)
    \/ Tick(h)
    \/ Reconcile(h)
    \/ AddReply(h)
    \/ Trim(h)

\* HandleUpdate has returned
Return ==
  /\ ~crashed
  /\ handling # <<>>
  /\ Quiet
  /\ handling' = <<>>
  /\ UNCHANGED <<allowedUsers, chunking, completion, store, histVars, pendings, turn, sent, nEvents, quota, crashed>>

Next == Receive \/ Proceed \/ Return

\* the bot started over a store that holds one bound project with transcription on
\* and no history limit
Init == \E al \in {{}, {1}} : Boot(al, "on", 0, MaxEvents)

Spec == Init /\ [][Next]_vars

\* the conversations of a topic bound to a project that keeps history: the
\* messages of that topic alone
TurnUpdates ==
  {msg \in PlainUpdates : msg.From \in Users /\ msg.Thread = 7 /\ msg.CmdLen = 0
                            /\ msg.Text \in {"", "on"}}

Converse ==
  \/ Ready /\ \E msg \in TurnUpdates : IgnoreEmpty(msg)
  \/ Ready /\ \E msg \in TurnUpdates : \E h \in Handlers : TurnStart(h, msg)

NextTurns == Converse \/ Proceed \/ Return

InitTurns == \E tr \in {"", "on"}, l \in 1..MaxLimit : Boot({}, tr, l, MaxTurns)

SpecTurns == InitTurns /\ [][NextTurns]_vars

\* the handler's own steps are scheduled fairly: once the result is on resultCh the
\* select of the wait loop takes it, and the handler runs on to its return; neither
\* the ticker nor the provider's answer is assumed
Fairness ==
  /\ \A h \in Handlers : WF_vars(Reconcile(h)) /\ WF_vars(AddReply(h)) /\ WF_vars(Trim(h))
  /\ WF_vars(Return)

\* one project that keeps one entry of history, with transcription on
InitLive == Boot({}, "on", 1, MaxLiveTurns)

SpecLive == InitLive /\ [][NextTurns]_vars /\ Fairness

\* a dispatcher that would hold an update back while a turn is running
ArrivesOneByOne == ~crashed /\ nEvents < quota /\ handling = <<>> /\ Quiet

\* the dispatcher starts a handler for every update as it comes, whatever the
\* handlers started before are doing
Arrives == ~crashed /\ nEvents < quota /\ handling = <<>>

\* two users in the bound topic: plain texts, and the command that asks for a model
ConcUpdates ==
  {msg \in TextUpdates \cup ByCmd["setmodel"] :
     /\ msg.From \in Users /\ msg.Thread = 7
     /\ msg.Text \in {"on", "/setmodel demo"}}

\* the handler that the update calls for
Handle(msg) ==
  \/ CmdSetModel(msg)
  \/ AnswerModel(msg)
  \/ \E h \in Handlers : TurnStart(h, msg)

Concur ==
  \/ Arrives /\ \E msg \in ConcUpdates : CmdSetModel(msg)
  \/ Arrives /\ \E msg \in ConcUpdates : AnswerModel(msg)
  \/ Arrives /\ \E msg \in ConcUpdates : \E h \in Handlers : TurnStart(h, msg)

\* the handler started last runs on by itself
Detach ==
  /\ ~crashed
  /\ handling # <<>>
  /\ handling' = <<>>
  /\ UNCHANGED <<allowedUsers, chunking, completion, store, histVars, pendings, turn, sent, nEvents, quota, crashed>>

\* one step of a running turn of a project that keeps no history
Run ==
  \E h \in Handlers :
    \/ SendProgress(h)
    \/ Dispatch(h)
    \/ CallReturns(h)
    \/ Tick(h)
    \/ Reconcile(h)

NextConc == Concur \/ Run \/ Detach

InitConc == Boot({}, "", 0, MaxConcEvents)

SpecConc == InitConc /\ [][NextConc]_vars

\* ------------------------------------------- handlers that share the registries
\* the handlers of SpecConc over a project that keeps history, for the messages of
\* one user, with the answer to a pending model taken in the two steps the code takes it in: the lookup in the map
\* pendingModel (line 406), and then the delete, the save and the reply (407-415);
\* the map is not guarded, so two handlers that are both between the two steps may
\* also end the process ("fatal error: concurrent map writes")
NextRace ==
  \/ Arrives /\ \E msg \in {m \in ConcUpdates : m.From = 1} : CmdSetModel(msg)
  \/ Arrives /\ \E msg \in {m \in ConcUpdates : m.From = 1} : \E h \in Handlers :
       /\ Disposition(msg) = "answer model"
       /\ FreeSlot(h)
       /\ turn' = [turn EXCEPT ![h] =
                     [IdleTurn EXCEPT !.pc = "answer", !.From = msg.From, !.chat = msg.Chat,
                                      !.thread = msg.Thread, !.proj = pendingModel[msg.From],
                                      !.text = msg.Text]]
       /\ Returned(msg, <<>>)
       /\ UNCHANGED <<allowedUsers, chunking, completion, store, histVars, pendings, quota, crashed>>
  \/ \E h \in Handlers :
       /\ ~crashed
       /\ turn[h].pc = "answer"
       /\ Consume("model", turn[h].From)
       /\ models' = SaveSetting(models, turn[h].proj, TrimSpace(turn[h].text))
       /\ sent' = <<SendCall("Project '" \o turn[h].proj \o "' uses model '"
                               \o TrimSpace(turn[h].text) \o "'.")>>
       /\ turn' = [turn EXCEPT ![h] = IdleTurn]
       /\ UNCHANGED <<allowedUsers, chunking, completion, projects, mapping, rules, webSearch, reasoning,
                      transcribe, historyLimits, histVars, nEvents, quota, handling, crashed>>
  \/ /\ ~crashed
     /\ \A h \in Handlers : turn[h].pc = "answer"
     /\ crashed' = TRUE
     /\ sent' = <<>>
     /\ UNCHANGED <<allowedUsers, chunking, completion, store, histVars, pendings, turn, nEvents, quota,
                    handling>>
  \/ Arrives /\ \E msg \in {m \in ConcUpdates : m.From = 1} : \E h \in Handlers : TurnStart(h, msg)
  \/ \E h \in Handlers :
       \/ AddText(h)
       \/ SendProgress(h)
       \/ Dispatch(h)
       \/ CallReturns(h)
       \/ Tick(h)
       \/ Reconcile(h)
       \/ AddReply(h)
       \/ Trim(h)
  \/ Detach

\* the project keeps one entry of history
InitRace == Boot({}, "", 1, MaxConcEvents)

SpecRace == InitRace /\ [][NextRace]_vars

\* splitMessage by itself: texts of up to MaxRunes runes, chunk sizes of 1..MaxSize
Runes == {"a", "b"}

RECURSIVE TextsUpTo(_)
TextsUpTo(n) ==
  IF n = 0 THEN {""}
  ELSE LET shorter == TextsUpTo(n - 1) IN shorter \cup {x \o r : x \in shorter, r \in Runes}

InitSplit ==
  /\ Start({}, "", 0, 0)
  /\ \E text \in TextsUpTo(MaxRunes), size \in 1..MaxSize :
       chunking = [text |-> text, size |-> size, chunks |-> <<>>, done |-> FALSE]

\* chunks := splitMessage(text, size)
Split ==
  /\ ~chunking.done
  /\ chunking' = [chunking EXCEPT !.chunks = splitMessage(chunking.text, chunking.size),
                                  !.done = TRUE]
  /\ UNCHANGED <<allowedUsers, completion, store, histVars, pendings, turn, sent, nEvents,
                 quota, handling, crashed>>

NextSplit == Split

SpecSplit == InitSplit /\ [][NextSplit]_vars

\* ------------------------------------------ the Chat-Completions handler's call
fallbackModel == "gpt-3.5-turbo"

\* a goroutine that would try the fallback model after every failure
RetriesAlways(model, err) == err

\* if err != nil && model == defaultModel: the second call is made
Retries(model, err) == err /\ model = defaultModel

\* the goroutine of one turn after another: the handler loads the project's model
\* (the default for a project without one), the goroutine calls
\* CreateChatCompletion with it, calls again with the fallback model if Retries, and
\* puts the reply, or the error text if the last call made gave an error, on resultCh
NextFallback ==
  \/ /\ completion.pc = "idle"
     /\ Len(completion.results) < MaxAsks
     /\ \E stored \in {"", defaultModel, "gpt-4o"} :
          completion' = [completion EXCEPT
                           !.pc = "first",
                           !.model = IF stored = "" THEN defaultModel ELSE stored,
                           !.calls = <<>>]
     /\ UNCHANGED <<allowedUsers, chunking, store, histVars, pendings, turn, sent, nEvents,
                    quota, handling, crashed>>
  \/ /\ completion.pc = "first"
     /\ \E err \in BOOLEAN :
          completion' = [completion EXCEPT
                           !.pc = IF Retries(completion.model, err) THEN "retry" ELSE "report",
                           !.calls = <<[model |-> completion.model, err |-> err]>>]
     /\ UNCHANGED <<allowedUsers, chunking, store, histVars, pendings, turn, sent, nEvents,
                    quota, handling, crashed>>
  \/ /\ completion.pc = "retry"
     /\ \E err \in BOOLEAN :
          completion' = [completion EXCEPT
                           !.pc = "report",
                           !.calls = Append(completion.calls,
                                            [model |-> fallbackModel, err |-> err])]
     /\ UNCHANGED <<allowedUsers, chunking, store, histVars, pendings, turn, sent, nEvents,
                    quota, handling, crashed>>
  \/ /\ completion.pc = "report"
     /\ completion' = [completion EXCEPT
                         !.pc = "idle",
                         !.results = Append(completion.results,
                                            [model |-> completion.model,
                                             calls |-> completion.calls,
                                             failed |-> completion.calls[Len(completion.calls)].err])]
     /\ UNCHANGED <<allowedUsers, chunking, store, histVars, pendings, turn, sent, nEvents,
                    quota, handling, crashed>>

InitFallback == Boot({}, "", 0, 0)

SpecFallback == InitFallback /\ [][NextFallback]_vars

\* ------------------------------------- a history that is kept and administered
\* one user in the bound topic: plain texts, which start a turn or answer a pending
\* action, and the commands that ask for an instruction, for a new limit and for
\* clearing the history
KeepUpdates ==
  {Msg(1, 1, 7, x, 0, "", FALSE, FALSE) : x \in {"on", "0", "1", "confirm"}}
    \cup {Msg(1, 1, 7, "/" \o n \o " demo", Len(n) + 1, "", FALSE, FALSE) :
            n \in {"setrule", "sethistorylimit", "clearhistory"}}

\* a message arrives, a turn of text takes a step, or the handler has returned
NextKeep ==
  \/ Ready /\ \E msg \in KeepUpdates : CmdSetRule(msg)
  \/ Ready /\ \E msg \in KeepUpdates : AnswerRule(msg)
  \/ Ready /\ \E msg \in KeepUpdates : CmdSetHistoryLimit(msg)
  \/ Ready /\ \E msg \in KeepUpdates : CmdClearHistory(msg)
  \/ Ready /\ \E msg \in KeepUpdates : AnswerHistLimit(msg)
  \/ Ready /\ \E msg \in KeepUpdates : AnswerClearHist(msg)
  \/ Ready /\ \E msg \in KeepUpdates : \E h \in Handlers : TurnStart(h, msg)
  \/ \E h \in Handlers :
       \/ AddText(h)
       \/ SendProgress(h)
       \/ Dispatch(h)
       \/ CallReturns(h)
       \/ Tick(h)
       \/ Reconcile(h)
       \/ AddReply(h)
       \/ Trim(h)
  \/ Return

\* the project starts with the largest limit
InitKeep == Boot({}, "", MaxLimit, MaxKeepEvents)

SpecKeep == InitKeep /\ [][NextKeep]_vars

\* ------------------------------------------------ a transport that may fail
\* progressMsg == nil: SendMessage gave its error and no message
NoMessage == 0 - 1

\* a call that the transport answered with an error
Failed(call) ==
  [f \in DOMAIN call \cup {"failed"} |-> IF f = "failed" THEN TRUE ELSE call[f]]

\* the calls of one step, those at the given positions failed
Outcome(calls, lost) == [i \in 1..Len(calls) |-> IF i \in lost THEN Failed(calls[i]) ELSE calls[i]]

\* lines 646-651 when SendMessage fails: the error is dropped and the handler goes on
\* with what it got for progressMsg: a message without id, or no message at all; the
\* Bot interface allows both
SendProgressFails(h) ==
  /\ ~crashed
  /\ turn[h].pc = "progress"
  /\ \E got \in {0, NoMessage} :
       LET t == turn[h]
           m == Failed(SendTo(t.chat, t.thread, "Sending to ChatGPT...", t.msgID))
       IN /\ sent' = <<m>>
          /\ turn' = [turn EXCEPT ![h].pc = "dispatch", ![h].progress = got,
                                  ![h].log = Append(t.log, m)]
  /\ UNCHANGED <<allowedUsers, chunking, completion, store, histVars, pendings, nEvents, quota, handling, crashed>>

\* lines 707-716 over such a transport: the edit may fail, which is logged; an edit
\* of a message without id fails; the loop goes on either way
TickOver(h) ==
  /\ ~crashed
  /\ turn[h].pc = "waiting"
  /\ turn[h].ticks < MaxTicks
  /\ turn[h].progress # NoMessage
  /\ LET t == turn[h]
         e == EditOf(t.chat, t.progress, "Waiting " \o Itoa(10 * (t.ticks + 1))
                                           \o " seconds for ChatGPT answer...")
     IN \E lost \in (IF t.progress = 0 THEN {{1}} ELSE {{}, {1}}) :
          /\ sent' = Outcome(<<e>>, lost)
          /\ turn' = [turn EXCEPT ![h] = [Ticked(t) EXCEPT !.log = t.log \o Outcome(<<e>>, lost)]]
  /\ UNCHANGED <<allowedUsers, chunking, completion, store, histVars, pendings, nEvents, quota, handling, crashed>>

\* progressMsg.ID with progressMsg == nil, read at a tick (line 711), for the error
\* edit (724) or for the edit to the first chunk (751): the panic of a goroutine ends
\* the process
NilProgress(h) ==
  /\ ~crashed
  /\ turn[h].progress = NoMessage
  /\ turn[h].pc = "waiting"
  /\ \/ turn[h].ticks < MaxTicks
     \/ /\ turn[h].call = "returned"
        /\ turn[h].err \/ Len(splitMessage(turn[h].reply, maxMessageLen)) > 0
  /\ crashed' = TRUE
  /\ sent' = <<>>
  /\ UNCHANGED <<allowedUsers, chunking, completion, store, histVars, pendings, turn, nEvents, quota, handling>>

\* lines 704-760 over such a transport: the results of the edit and of the sends are
\* not looked at, so the handler goes on as it does when they succeed
ReconcileOver(h) ==
  /\ ~crashed
  /\ turn[h].pc = "waiting"
  /\ turn[h].call = "returned"
  /\ LET t == turn[h]
         chunks == splitMessage(t.reply, maxMessageLen)
         calls == IF t.err THEN ErrorReport(t)
                  ELSE IF Len(chunks) = 0 THEN EmptyReport(t) ELSE Deliver(t, chunks)
     IN /\ calls # <<>> => t.progress # NoMessage
        /\ \E lost \in SUBSET (1..Len(calls)) :
             /\ (t.progress = 0 /\ calls # <<>>) => 1 \in lost
             /\ sent' = Outcome(calls, lost)
             /\ turn' = [turn EXCEPT ![h] =
                           IF t.limit > 0 /\ (t.err \/ Len(chunks) > 0)
                           THEN [t EXCEPT !.pc = "addReply", !.log = t.log \o Outcome(calls, lost)]
                           ELSE IdleTurn]
  /\ UNCHANGED <<allowedUsers, chunking, completion, store, histVars, pendings, nEvents, quota, handling, crashed>>

\* a message arrives, a turn whose transport calls may fail takes a step, or the
\* handler has returned
NextFaulty ==
  \/ Converse
  \/ \E h \in Handlers :
       \/ AddText(h)
       \/ AddTranscript(h)
       \/ AddImage(h)
       \/ SendProgress(h)
       \/ SendProgressFails(h)
       \/ Dispatch(h)
       \/ CallReturns(h)
       \/ TickOver(h)
       \/ NilProgress(h)
       \/ ReconcileOver(h)
       \/ AddReply(h)
       \/ Trim(h)
  \/ Return

\* one message to a project with transcription on, with and without history
InitFaulty == \E l \in {0, 1} : Boot({}, "on", l, MaxLiveTurns)

SpecFaulty == InitFaulty /\ [][NextFaulty]_vars

\* ------------------------------------------------------- the vocabulary of the claims
\* HandleUpdate takes a new update in this step: handling'[1] is the message
Enters == handling = <<>> /\ handling' # <<>>

\* The seven kinds of pending action are numbered in the order the spec gives them:
\* 1 model, 2 instruction, 3 web-search, 4 reasoning, 5 transcription,
\* 6 history-limit, 7 clear-history.
\* the set command that registers the i-th kind
SetCommandOf == <<"setmodel", "setrule", "setwebsearch", "setreasoning", "settranscribe",
                  "sethistorylimit", "clearhistory">>

\* user u's entry in the registry of the i-th kind ("": none)
Entry(i, u) ==
  CASE i = 1 -> pendingModel[u]
    [] i = 2 -> pendingRule[u]
    [] i = 3 -> pendingWebSearch[u]
    [] i = 4 -> pendingReasoning[u]
    [] i = 5 -> pendingTranscribe[u]
    [] i = 6 -> pendingHistLimit[u]
    [] i = 7 -> pendingClearHist[u]

\* what the i-th kind of action writes, per project
Setting(i) ==
  CASE i = 1 -> models
    [] i = 2 -> rules
    [] i = 3 -> webSearch
    [] i = 4 -> reasoning
    [] i = 5 -> transcribe
    [] i = 6 -> historyLimits
    [] i = 7 -> history

\* the same two after the step
EntryAfter(i, u) ==
  CASE i = 1 -> pendingModel'[u]
    [] i = 2 -> pendingRule'[u]
    [] i = 3 -> pendingWebSearch'[u]
    [] i = 4 -> pendingReasoning'[u]
    [] i = 5 -> pendingTranscribe'[u]
    [] i = 6 -> pendingHistLimit'[u]
    [] i = 7 -> pendingClearHist'[u]

SettingAfter(i) ==
  CASE i = 1 -> models'
    [] i = 2 -> rules'
    [] i = 3 -> webSearch'
    [] i = 4 -> reasoning'
    [] i = 5 -> transcribe'
    [] i = 6 -> historyLimits'
    [] i = 7 -> history'

\* the kinds user u has a pending action of, and the first of them
HeldKinds(u) == {i \in 1..7 : Entry(i, u) # ""}
FirstHeld(u) == CHOOSE i \in HeldKinds(u) : \A j \in HeldKinds(u) : i <= j

\* a text message that carries no command, and one that carries a recognized command
NonCommandText(msg) == msg.Text # "" /\ msg.CmdLen = 0
RecognizedCommand(msg) == msg.parsed.ok /\ msg.parsed.cmd \in CmdNames

\* the follow-up values the spec calls valid for the i-th kind, and what gets stored
Acceptable(i, text) ==
  LET val == ToLower(TrimSpace(text))
  IN CASE i \in {1, 2} -> TRUE
       [] i = 3 -> val \in {"high", "medium", "low", "off"}
       [] i = 4 -> val \in {"minimal", "low", "medium", "high"}
       [] i = 5 -> val \in {"on", "off"}
       [] i = 6 -> Atoi(TrimSpace(text)).ok /\ Atoi(TrimSpace(text)).val >= 0
       [] i = 7 -> val = "confirm"

Stored(i, text) ==
  CASE i \in {1, 2} -> TrimSpace(text)
    [] i \in {3, 4, 5} -> ToLower(TrimSpace(text))
    [] i = 6 -> Atoi(TrimSpace(text)).val

\* the reply that asks for a valid value of the i-th kind
Corrective(i) ==
  CASE i = 3 -> "Please enter one of: high, medium, low, off."
    [] i = 4 -> "Please enter one of: minimal, low, medium, high."
    [] i = 5 -> "Please enter one of: on, off."
    [] i = 6 -> "Please enter a non-negative integer."

\* the entries a turn writes for the user's message before it calls the model
UserEntries(t) ==
  (IF t.text # "" THEN <<t.text>> ELSE <<>>)
    \o (IF t.transcribed # "" THEN <<"(Transcribed audio) " \o t.transcribed>> ELSE <<>>)
    \o (IF t.photo THEN <<"(User has attached some image)">> ELSE <<>>)

\* ------------------------------------------------------------------- C1
\* C1: for every project whose history limit L > 0 stays constant, whenever all the
\* turns so far have run to their return (reply, empty reply or error), the stored
\* history holds at most L entries and they are the most recently appended ones, in
\* insertion order. (The limits never change under SpecTurns.)
C1_HistoryWithinLimit ==
  \A p \in Names :
    (Quiet /\ handling = <<>> /\ historyLimits[p] > 0) =>
      /\ Len(history[p]) <= historyLimits[p]
      /\ \A i \in 1..Len(history[p]) : history[p][i].id = histSeq[p] - Len(history[p]) + i

\* ------------------------------------------------------------------- C2
\* C2: with a history limit L > 0, once the handler has written the entries of the
\* user's message and goes on to the progress message and the model call, the
\* project holds at most L entries
C2_TrimmedBeforeDispatch ==
  \A h \in Handlers :
    (turn[h].pc \in {"progress", "dispatch", "waiting"} /\ turn[h].limit > 0) =>
      Len(history[turn[h].proj]) <= turn[h].limit

\* ------------------------------------------------------------------- C3
\* C3 as the spec has it: while a turn's completion call is outstanding, the
\* project's history is what the turn loaded when it started
C3_NoWriteBeforeResolution ==
  \A h \in Handlers :
    turn[h].call = "running" => history[turn[h].proj] = turn[h].hist

\* C3, amended: from the progress message until the handler has received the call's
\* outcome, the project's history is what the turn loaded plus the entries of the
\* user's message (text, transcript, image placeholder, in this order, when the
\* limit is positive) and nothing else: no assistant entry precedes the resolution
C3_OnlyUserEntriesBeforeResolution ==
  \A h \in Handlers :
    LET t == turn[h]
        now == history[t.proj]
        new == IF t.limit > 0 THEN UserEntries(t) ELSE <<>>
    IN t.pc \in {"progress", "dispatch", "waiting"} =>
         /\ Len(now) = Len(t.hist) + Len(new)
         /\ SubSeq(now, 1, Len(t.hist)) = t.hist
         /\ \A i \in 1..Len(new) :
              /\ now[Len(t.hist) + i].Content = new[i]
              /\ now[Len(t.hist) + i].Role = "user"
              /\ now[Len(t.hist) + i].WhoID = t.From

\* a turn waits for its call with the user's entries already in the store
C3_Witness ==
  \E h \in Handlers :
    /\ turn[h].call = "running"
    /\ turn[h].limit > 0
    /\ Len(history[turn[h].proj]) > Len(turn[h].hist)

\* ------------------------------------------------------------------- C4
\* C4 as the spec has it: in every reachable state each user has at most one
\* pending action, counted across all seven kinds
C4_AtMostOnePending == \A u \in Users : Cardinality(HeldKinds(u)) <= 1

\* C4, amended: a user has at most one pending action of each kind and may have
\* actions of several kinds at once; a set command of an allowed user that names an
\* existing project makes that project the user's entry of the command's kind,
\* replacing the entry of that kind, and changes no other entry of any user
C4_RegisteringReplacesSameKindOnly ==
  [][Enters =>
       LET msg == handling'[1]
       IN (/\ msg.From \in Users
           /\ (allowedUsers = {} \/ msg.From \in allowedUsers)
           /\ msg.parsed.ok
           /\ \E i \in 1..7 : msg.parsed.cmd = SetCommandOf[i]
           /\ msg.parsed.args \in projects)
          => \A i \in 1..7, u \in Users :
               EntryAfter(i, u) = IF msg.parsed.cmd = SetCommandOf[i] /\ u = msg.From
                              THEN msg.parsed.args
                              ELSE Entry(i, u)]_vars

\* a user holds pending actions of two kinds at once
C4_Witness == \E u \in Users : Cardinality(HeldKinds(u)) >= 2

\* ------------------------------------------------------------------- C5
\* C5: when a user who has a pending action sends a text message that carries no
\* command, in any chat or topic, the message is consumed as the answer: the entry
\* is deleted, nothing is written (no setting, no history) but what the action writes
\* for the project named at registration, that setting takes the value when the
\* value is valid, the user gets one reply, and no turn is started for the message
C5_NextTextIsConsumed ==
  [][Enters =>
       LET msg == handling'[1]
           u == msg.From
       IN (u \in Users /\ NonCommandText(msg) /\ HeldKinds(u) # {})
          => LET k == FirstHeld(u)
                 proj == Entry(k, u)
             IN /\ EntryAfter(k, u) = ""
                /\ \A i \in 1..7, p \in Names :
                     (i # k \/ p # proj) => SettingAfter(i)[p] = Setting(i)[p]
                /\ (k <= 6 /\ Acceptable(k, msg.Text))
                     => SettingAfter(k)[proj] = Stored(k, msg.Text)
                /\ Len(sent') = 1 /\ sent'[1].op = "send"
                /\ UNCHANGED turn]_vars

\* a message sent where no project is bound has set the model of the project named
\* when the action was registered
C5_Witness ==
  /\ handling # <<>>
  /\ handling[1].From \in Users
  /\ NonCommandText(handling[1])
  /\ mapping[<<handling[1].Chat, handling[1].Thread>>] = ""
  /\ models["demo"] = TrimSpace(handling[1].Text)
  /\ pendingModel[handling[1].From] = ""

C7_FirstKindOnly ==
  [][Enters =>
       LET msg == handling'[1]
           u == msg.From
       IN (u \in Users /\ NonCommandText(msg) /\ HeldKinds(u) # {})
          => /\ \A i \in 1..7, v \in Users :
                  EntryAfter(i, v) = IF i = FirstHeld(u) /\ v = u THEN "" ELSE Entry(i, v)
             /\ \A i \in 1..7 : i # FirstHeld(u) => SettingAfter(i) = Setting(i)]_vars

\* a user held a model action and an instruction action: the message became the
\* model and the instruction action is still pending
C7_Witness ==
  /\ handling # <<>>
  /\ handling[1].From = 1
  /\ NonCommandText(handling[1])
  /\ models["demo"] = TrimSpace(handling[1].Text)
  /\ pendingModel[1] = ""
  /\ pendingRule[1] = "demo"
  /\ rules["demo"] = ""

\* ------------------------------------------------------------------- C8
\* C8: a follow-up whose value is not valid for the pending action it answers (a
\* web-search level outside high/medium/low/off, a reasoning effort outside
\* minimal/low/medium/high, a transcription value other than on/off, a history
\* limit that is no non-negative integer) is answered with the corrective reply,
\* changes nothing in the store, and leaves the action consumed
C8_InvalidValueRejected ==
  [][Enters =>
       LET msg == handling'[1]
           u == msg.From
       IN (/\ u \in Users
           /\ NonCommandText(msg)
           /\ HeldKinds(u) # {}
           /\ FirstHeld(u) \in 3..6
           /\ ~Acceptable(FirstHeld(u), msg.Text))
          => /\ sent' = <<SendCall(Corrective(FirstHeld(u)))>>
             /\ UNCHANGED <<store, histVars>>
             /\ EntryAfter(FirstHeld(u), u) = ""
             /\ \A i \in 1..7 : EntryAfter(i, u) # "" => Entry(i, u) # ""]_vars

\* "on" was sent as a web-search level: it was rejected, the setting is still
\* unset, and the user's action is gone
C8_Witness ==
  /\ handling # <<>>
  /\ handling[1].From \in Users
  /\ handling[1].Text = "on"
  /\ sent = <<SendCall("Please enter one of: high, medium, low, off.")>>
  /\ webSearch["demo"] = ""
  /\ pendingWebSearch[handling[1].From] = ""

\* ------------------------------------------------------------------- C9
\* C9: a recognized command of a user is never taken as the value of a pending
\* action: it writes none of the settings the pending actions write and no history,
\* and the only registry entry it can change is the sender's entry of the kind the
\* command itself registers, which becomes the project the command names
C9_CommandNotCaptured ==
  [][Enters =>
       LET msg == handling'[1]
       IN (msg.From \in Users /\ RecognizedCommand(msg))
          => /\ UNCHANGED <<models, rules, webSearch, reasoning, transcribe, historyLimits,
                            histVars>>
             /\ \A i \in 1..7, u \in Users :
                  EntryAfter(i, u) # Entry(i, u)
                    => /\ u = msg.From
                       /\ msg.parsed.cmd = SetCommandOf[i]
                       /\ EntryAfter(i, u) = msg.parsed.args]_vars

\* a user with a pending instruction action has issued /setmodel: the instruction
\* action is still pending, next to the model action
C9_Witness ==
  /\ handling # <<>>
  /\ handling[1].From = 1
  /\ handling[1].parsed.cmd = "setmodel"
  /\ pendingRule[1] = "demo"
  /\ pendingModel[1] = "demo"
  /\ rules["demo"] = ""

\* ------------------------------------------------------------------ C10
\* C10: with a non-empty allow-list, a message whose sender is absent or not on the
\* list is answered with the one denial message and nothing else happens: no write
\* to the project store, no change of a registry, no history write, no turn and so
\* no model call, whatever the message is
C10_DeniedSenderOnlyGetsDenial ==
  [][Enters =>
       LET msg == handling'[1]
       IN (allowedUsers # {} /\ msg.From \notin allowedUsers)
          => /\ sent' = <<SendCall(DenialText)>>
             /\ UNCHANGED <<store, pendings, histVars, turn, crashed>>]_vars

\* a set command without sender was denied while an allowed user has an action pending
C10_Witness ==
  /\ allowedUsers = {1}
  /\ handling # <<>>
  /\ handling[1].From = NoUser
  /\ handling[1].parsed.cmd = "setmodel"
  /\ handling[1].parsed.args = "demo"
  /\ sent = <<SendCall(DenialText)>>
  /\ pendingModel[1] = "demo"

\* ------------------------------------------------------------------- C11
\* the positions of the progress message among the calls a turn has issued
ProgressSends(t) ==
  {i \in 1..Len(t.log) : t.log[i].op = "send" /\ t.log[i].text = "Sending to ChatGPT..."}

\* C11: a turn sends exactly one progress message ("Sending to ChatGPT..."), as a
\* reply to the user's message in the user's chat and thread, and keeps the id of
\* the message sent; it does so before it starts the completion call, so that no
\* call is running or has returned for a turn that has not sent its progress message.
C11_ProgressBeforeDispatch ==
  \A h \in Handlers :
    LET t == turn[h]
    IN /\ Cardinality(ProgressSends(t)) <= 1
       /\ (t.pc \in {"dispatch", "waiting", "addReply", "trim"} \/ t.call # "none") =>
            /\ ProgressSends(t) = {1}
            /\ t.log[1] = SendTo(t.chat, t.thread, "Sending to ChatGPT...", t.msgID)
            /\ t.progress = t.log[1].id
       /\ t.pc \in {"start", "addText", "addTranscript", "addImage", "progress", "dispatch"} =>
            t.call = "none"

\* a call is running for a turn that has sent its progress message and no other
C11_Witness ==
  \E h \in Handlers :
    /\ turn[h].call = "running"
    /\ turn[h].ticks = 1
    /\ Len(turn[h].log) = 2
    /\ turn[h].progress = turn[h].msgID + 1

\* ------------------------------------------------------------------- C12
\* the ticker of handler h fires in this step
TickStep(h) == turn'[h].ticks = turn[h].ticks + 1

\* C12: a tick only edits the progress message: the handler stays in its wait loop
\* and the call, its result and the stored history are as before (no timeout, no
\* cancellation); and whenever the completion call of a dispatched turn has returned,
\* with a reply or an error and after any number of ticks, the handler leaves the
\* wait loop, reconciles and returns.
C12_CallOutcomeEndsTheWait ==
  /\ [][\A h \in Handlers :
          TickStep(h) => /\ turn[h].pc = "waiting" /\ turn'[h].pc = "waiting"
                         /\ turn'[h].call = turn[h].call
                         /\ turn'[h].reply = turn[h].reply
                         /\ turn'[h].err = turn[h].err
                         /\ UNCHANGED <<histVars, store, pendings>>]_vars
  /\ \A h \in Handlers :
       (turn[h].call = "returned") ~> (turn[h].pc = "idle" /\ handling = <<>>)

\* the call has returned after the ticker has fired as often as it may
C12_Witness ==
  \E h \in Handlers :
    /\ turn[h].pc = "waiting"
    /\ turn[h].call = "returned"
    /\ turn[h].ticks = MaxTicks

\* ------------------------------------------------------------------- C13
\* an update can be taken: the budget of the behaviour is not used up
Open == ~crashed /\ nEvents < quota /\ handling = <<>>

\* C13: while a handler waits for its completion call, every update of another user
\* (a command, the follow-up of a pending action, a message of a turn for which a
\* handler slot is free) can be taken and handled, and every other running turn can
\* take its next step: nothing waits for the outstanding call.
C13_OthersProceedDuringWait ==
  \A h \in Handlers :
    (turn[h].pc = "waiting" /\ turn[h].call = "running") =>
      /\ Open =>
           \A msg \in ConcUpdates :
             (/\ msg.From # turn[h].From
              /\ Disposition(msg) = "turn" => \E g \in Handlers : FreeSlot(g))
               => ENABLED (Arrives /\ Handle(msg))
      /\ \A g \in Handlers \ {h} :
           /\ turn[g].pc = "progress" => ENABLED SendProgress(g)
           /\ turn[g].pc = "dispatch" => ENABLED Dispatch(g)
           /\ turn[g].call = "running" => ENABLED CallReturns(g)
           /\ (turn[g].pc = "waiting" /\ turn[g].call = "returned") => ENABLED Reconcile(g)

\* user 1's call is still running, and since that turn began user 2 has asked for a
\* model of the project and given it
C13_Witness ==
  \E h \in Handlers :
    /\ turn[h].pc = "waiting"
    /\ turn[h].call = "running"
    /\ turn[h].From = 1
    /\ turn[h].model = defaultModel
    /\ models["demo"] = "on"
    /\ pendingModel[2] = ""
    /\ handling = <<>>

\* ------------------------------------------------------------------- C14
\* handler h takes the result of its call off the channel in this step
Leaves(h) == turn[h].pc = "waiting" /\ turn'[h].pc # "waiting"

\* the texts a failed call is reported with
ErrorTexts == {"OpenAI error: " \o e : e \in ApiErrors}

\* C14: when the completion call has failed, the handler edits the progress message
\* to the error text "OpenAI error: <message>" and sends nothing else; with a history
\* limit > 0 it then appends exactly one entry, of role assistant and with that same
\* text as content, and then trims the history to the limit; with limit 0 it returns
\* without a history write.
C14_ErrorReportedAndRecorded ==
  [][\A h \in Handlers :
       LET t == turn[h]
           p == t.proj
           old == history[p]
           new == history'[p]
       IN /\ (Leaves(h) /\ t.err) =>
               /\ t.reply \in ErrorTexts
               /\ sent' = <<[op |-> "edit", text |-> t.reply, chat |-> t.chat,
                             id |-> t.progress]>>
               /\ UNCHANGED histVars
               /\ turn'[h].pc = IF t.limit > 0 THEN "addReply" ELSE "idle"
          /\ (t.pc = "addReply" /\ t.err /\ turn'[h].pc # "addReply") =>
               /\ t.limit > 0
               /\ Len(new) = Len(old) + 1
               /\ SubSeq(new, 1, Len(old)) = old
               /\ new[Len(new)].Role = "assistant"
               /\ new[Len(new)].Content = t.reply
               /\ sent' = <<>>
               /\ turn'[h].pc = "trim"
          /\ (t.pc = "trim" /\ t.err /\ turn'[h].pc # "trim") =>
               /\ Len(new) = (IF Len(old) < t.limit THEN Len(old) ELSE t.limit)
               /\ new = SubSeq(old, Len(old) - Len(new) + 1, Len(old))
               /\ sent' = <<>>
               /\ turn'[h].pc = "idle"]_vars

\* the error text of a failed call has been stored and is about to be trimmed
C14_Witness ==
  \E h \in Handlers :
    /\ turn[h].pc = "trim"
    /\ turn[h].err
    /\ turn[h].limit > 0
    /\ history[turn[h].proj][Len(history[turn[h].proj])].Content = "OpenAI error: boom"

\* ------------------------------------------------------------------- C15
\* C15: on every successful completion with a history limit > 0 the handler appends
\* exactly one entry, of role assistant and with the entire reply text as content
\* whatever the number of chunks, and then trims the history to the limit.
C15_ReplyRecordedOnSuccess ==
  [][\A h \in Handlers :
       LET t == turn[h]
           p == t.proj
           old == history[p]
           new == history'[p]
       IN /\ (Leaves(h) /\ ~t.err /\ t.limit > 0) =>
               /\ UNCHANGED histVars
               /\ turn'[h].pc = "addReply"
          /\ (t.pc = "addReply" /\ ~t.err /\ turn'[h].pc # "addReply") =>
               /\ Len(new) = Len(old) + 1
               /\ SubSeq(new, 1, Len(old)) = old
               /\ new[Len(new)].Role = "assistant"
               /\ new[Len(new)].Content = t.reply
               /\ turn'[h].pc = "trim"
          /\ (t.pc = "trim" /\ ~t.err /\ turn'[h].pc # "trim") =>
               /\ Len(new) = (IF Len(old) < t.limit THEN Len(old) ELSE t.limit)
               /\ new = SubSeq(old, Len(old) - Len(new) + 1, Len(old))
               /\ turn'[h].pc = "idle"]_vars

\* ------------------------------------------------------------------- C16
RECURSIVE ConcatTexts(_)
\* the texts of a sequence of calls, joined in order
ConcatTexts(calls) ==
  IF calls = <<>> THEN "" ELSE calls[1].text \o ConcatTexts(Tail(calls))

\* C16: on success with a reply of k >= 1 chunks the handler issues exactly k calls:
\* an edit of the progress message to the first chunk, then for chunks 2..k one new
\* message each, in chunk order, to the chat and thread of the user's message; the
\* text of the edit followed by the texts of the sends is the reply.
C16_FirstChunkEditsRestAreSent ==
  [][\A h \in Handlers :
       LET t == turn[h]
           chunks == splitMessage(t.reply, maxMessageLen)
           k == Len(chunks)
       IN (Leaves(h) /\ ~t.err /\ k >= 1) =>
            /\ Len(sent') = k
            /\ sent'[1].op = "edit"
            /\ sent'[1].chat = t.chat
            /\ sent'[1].id = t.progress
            /\ \A i \in 2..k : /\ sent'[i].op = "send"
                               /\ sent'[i].chat = t.chat
                               /\ sent'[i].thread = t.thread
            /\ \A i \in 1..k : sent'[i].text = chunks[i]
            /\ ConcatTexts(sent') = t.reply]_vars

\* a reply of three chunks has just been delivered: one edit and two new messages
C16_Witness ==
  /\ Len(sent) = 3
  /\ sent[1].op = "edit"
  /\ Len(sent[1].text) = maxMessageLen
  /\ sent[2].op = "send"
  /\ sent[3].op = "send"
  /\ sent[3].text = Repeat("a", 1001)

\* ------------------------------------------------------------------- C17
\* C17: each chunk after the first is sent as a reply to the message of the chunk
\* before it: the second chunk names the edited progress message as its reply
\* target, every later chunk the message that the send of the chunk before returned.
C17_ChunksThreaded ==
  [][\A h \in Handlers :
       LET t == turn[h]
           k == Len(splitMessage(t.reply, maxMessageLen))
       IN (Leaves(h) /\ ~t.err /\ k >= 2) =>
            /\ Len(sent') = k
            /\ sent'[2].replyTo = t.progress
            /\ \A i \in 3..k : sent'[i].replyTo = sent'[i - 1].id]_vars

\* ------------------------------------------------------------------- C18
RECURSIVE Concat(_)
\* the chunks joined in order
Concat(chunks) == IF chunks = <<>> THEN "" ELSE chunks[1] \o Concat(Tail(chunks))

\* C18: splitMessage(text, C) with C >= 1 on a text of N runes returns ceil(N/C)
\* chunks; every chunk has between 1 and C runes and every chunk but the last has C;
\* chunk i is the i-th stretch of C runes of the text, so the chunks joined in order
\* are the text; the empty text gives no chunk.
C18_SplitMessageIsExact ==
  chunking.done =>
    LET N == Len(chunking.text)
        C == chunking.size
        chunks == chunking.chunks
        k == Len(chunks)
    IN /\ k = (N + C - 1) \div C
       /\ \A i \in 1..k : Len(chunks[i]) >= 1 /\ Len(chunks[i]) <= C
       /\ \A i \in 1..(k - 1) : Len(chunks[i]) = C
       /\ \A i \in 1..k :
            chunks[i] = SubSeq(chunking.text, (i - 1) * C + 1, IF i * C < N THEN i * C ELSE N)
       /\ Concat(chunks) = chunking.text
       /\ N = 0 => chunks = <<>>

\* a text of five runes has been split into two chunks of two and one of one
C18_Witness ==
  /\ chunking.done
  /\ chunking.text = "ababa"
  /\ chunking.size = 2
  /\ chunking.chunks = <<"ab", "ab", "a">>

\* ------------------------------------------------------------------- C19
\* the progress edits of the wait loop
WaitingEdits ==
  {"Waiting " \o Itoa(10 * n) \o " seconds for ChatGPT answer..." : n \in 1..MaxTicks}

\* C19 as stated: when a call succeeds with an empty reply, the progress message is
\* the only call the handler has issued or issues for that turn: no edit and no new
\* message follows it.
C19_NothingAfterProgressMessage ==
  [][\A h \in Handlers :
       (Leaves(h) /\ ~turn[h].err /\ turn[h].reply = "") =>
         /\ Len(turn[h].log) = 1
         /\ sent' = <<>>
         /\ turn'[h].pc = "idle"]_vars

\* C19, amended: when a call succeeds with an empty reply, the handler issues no
\* call on receiving it and returns: no edit, no new message; what it has issued
\* for the turn is the progress message and, after it, the progress edits of the
\* ticks that fired during the wait.
C19_NothingSentOnEmptyReply ==
  [][\A h \in Handlers :
       LET t == turn[h]
       IN (Leaves(h) /\ ~t.err /\ t.reply = "") =>
            /\ sent' = <<>>
            /\ turn'[h].pc = "idle"
            /\ ProgressSends(t) = {1}
            /\ \A i \in 2..Len(t.log) : /\ t.log[i].op = "edit"
                                        /\ t.log[i].id = t.progress
                                        /\ t.log[i].text \in WaitingEdits]_vars

\* a turn has just returned on an empty reply: nothing was sent in its last step and
\* the newest stored entry is the user's message of this turn
C19_Witness ==
  /\ Quiet
  /\ handling # <<>>
  /\ sent = <<>>
  /\ Len(history["demo"]) > 0
  /\ history["demo"][Len(history["demo"])].Role = "user"
  /\ history["demo"][Len(history["demo"])].When = nEvents - 1

\* ------------------------------------------------------------------- C20
\* the event of the turn yields a content part: a text or caption, a transcript or
\* an image that could be looked up
HasContent(t) ==
  \/ t.text # ""
  \/ t.transcribed # ""
  \/ \E i \in 1..Len(t.parts) : t.parts[i] = "image"

\* C20: a turn whose event yields no content part is aborted: the handler sends no
\* progress message, starts no model call and writes no history entry for it.
C20_ContentlessTurnAborted ==
  \A h \in Handlers :
    (turn[h].pc # "idle" /\ ~HasContent(turn[h])) =>
      /\ turn[h].log = <<>>
      /\ turn[h].call = "none"
      /\ history[turn[h].proj] = turn[h].hist

\* ------------------------------------------------------------------- C21
\* C21: no failure of a transport call of a turn (the send of the progress message, a
\* progress edit, the final edit, the send of a chunk) crashes the handler: the
\* process keeps running whatever the transport answers.
C21_TransportFailureNeverFatal == ~crashed

\* ------------------------------------------------------------------- C22
\* the sender of the message may use the bot
Permitted(msg) == msg.From \in Users /\ (allowedUsers = {} \/ msg.From \in allowedUsers)

\* C22: when no project is bound to the chat and thread of a plain text message whose
\* sender has no pending action, the handler returns without a transport call, starts
\* no turn (so no model call) and writes nothing: no history, no setting, no registry.
C22_UnboundTextIsDropped ==
  [][Enters =>
       LET msg == handling'[1]
       IN (/\ Permitted(msg)
           /\ NonCommandText(msg)
           /\ HeldKinds(msg.From) = {}
           /\ mapping[<<msg.Chat, msg.Thread>>] = "")
          => /\ sent' = <<>>
             /\ UNCHANGED <<store, histVars, pendings, turn, crashed>>]_vars

\* the binding of topic 7 has been removed and a text sent there was dropped
C22_Witness ==
  /\ handling # <<>>
  /\ Permitted(handling[1])
  /\ handling[1].Text = "on"
  /\ handling[1].Thread = 7
  /\ mapping[<<1, 7>>] = ""
  /\ HeldKinds(handling[1].From) = {}
  /\ sent = <<>>
  /\ Quiet

\* ------------------------------------------------------------------- C23
\* the event carries nothing: no text, no caption, no photo, no voice, no audio, and
\* so no command
Empty(msg) == msg.Text = "" /\ msg.Caption = "" /\ ~msg.Photo /\ ~msg.Voice

\* C23: an event of a permitted sender that carries no text, no caption, no photo, no
\* voice and no audio is ignored: no reply, no turn and so no model call, no write to
\* the store or to a history, and every pending action stays registered.
C23_EmptyEventIgnored ==
  [][Enters =>
       LET msg == handling'[1]
       IN (Permitted(msg) /\ Empty(msg))
          => /\ sent' = <<>>
             /\ UNCHANGED <<store, histVars, pendings, turn, crashed>>]_vars

\* an empty event of a sender whose model action is pending was ignored, in the
\* bound topic: the action is still pending
C23_Witness ==
  /\ handling # <<>>
  /\ Permitted(handling[1])
  /\ Empty(handling[1])
  /\ handling[1].Thread = 7
  /\ mapping[<<1, 7>>] = "demo"
  /\ pendingModel[handling[1].From] = "demo"
  /\ sent = <<>>
  /\ Quiet

\* ------------------------------------------------------------------- C24
\* C24: /settopic of a permitted sender changes the topic bindings only when the
\* message is in a topic (thread id other than 0) and names a registered project, and
\* then it binds exactly that chat and thread to the project; sent with thread id 0 it
\* creates or overwrites no binding; for a project that is not registered it replies
\* "Project not found." and writes nothing.
C24_BindsOnlyInTopicOfKnownProject ==
  [][Enters =>
       LET msg == handling'[1]
           proj == msg.parsed.args
       IN (Permitted(msg) /\ msg.parsed.ok /\ msg.parsed.cmd = "settopic")
          => /\ mapping' # mapping =>
                  /\ msg.Thread # 0
                  /\ proj \in projects
                  /\ mapping' = [mapping EXCEPT ![<<msg.Chat, msg.Thread>>] = proj]
             /\ msg.Thread = 0 => mapping' = mapping
             /\ (proj # "" /\ proj \notin projects) =>
                  /\ sent' = <<SendCall("Project not found.")>>
                  /\ mapping' = mapping
             /\ UNCHANGED <<projects, models, rules, webSearch, reasoning, transcribe,
                            historyLimits, histVars, pendings, turn>>]_vars

\* ------------------------------------------------------------------- C25
\* C25: /newproject <name> of a permitted sender creates the project record when the
\* name is unused; when the name is already registered the command is an error: the
\* reply is not the success reply, and the project, its settings, its bindings and
\* its history are as before.
C25_DuplicateNameIsAnError ==
  [][Enters =>
       LET msg == handling'[1]
           name == msg.parsed.args
       IN (Permitted(msg) /\ msg.parsed.ok /\ msg.parsed.cmd = "newproject" /\ name # "")
          => /\ name \notin projects =>
                  /\ projects' = projects \cup {name}
                  /\ sent' = <<SendCall("Project '" \o name \o "' registered.")>>
             /\ name \in projects =>
                  /\ projects' = projects
                  /\ Len(sent') = 1
                  /\ sent' # <<SendCall("Project '" \o name \o "' registered.")>>
             /\ UNCHANGED <<mapping, models, rules, webSearch, reasoning, transcribe,
                            historyLimits, histVars, pendings, turn>>]_vars

\* ------------------------------------------------------------------- C26
\* C26: a set command (/setmodel, /setrule, /setwebsearch, /setreasoning,
\* /settranscribe, /sethistorylimit, /clearhistory) of a permitted sender with a
\* project name registers a pending action only if the project is registered: then
\* the sender's entry of the command's kind becomes that project; for a name that is
\* not registered the reply is "Project not found." and no registry changes. Neither
\* case writes to the store or to a history.
C26_PendingOnlyForKnownProject ==
  [][Enters =>
       LET msg == handling'[1]
           proj == msg.parsed.args
       IN \A i \in 1..7 :
            (Permitted(msg) /\ msg.parsed.ok /\ msg.parsed.cmd = SetCommandOf[i] /\ proj # "")
            => /\ IF proj \in projects
                  THEN /\ EntryAfter(i, msg.From) = proj
                       /\ Len(sent') = 1
                       /\ sent' # <<SendCall("Project not found.")>>
                  ELSE /\ sent' = <<SendCall("Project not found.")>>
                       /\ UNCHANGED pendings
               /\ UNCHANGED <<store, histVars, turn, crashed>>]_vars

\* /setrule for a project that is not registered was refused while the sender's
\* model action for a registered project stays pending
C26_Witness ==
  /\ handling # <<>>
  /\ Permitted(handling[1])
  /\ handling[1].parsed.cmd = "setrule"
  /\ handling[1].parsed.args = "other"
  /\ "other" \notin projects
  /\ sent = <<SendCall("Project not found.")>>
  /\ pendingRule[handling[1].From] = ""
  /\ pendingModel[handling[1].From] = "demo"

\* ------------------------------------------------------------------- C27
\* the recognized commands that take a project name
NamedCommands == CmdNames \ {"unsettopic", "listprojects"}

\* C27: every recognized command that takes a project name, sent by a permitted
\* sender without an argument, is answered with exactly its usage string
\* "Usage: /<cmd> <projectName>" and has no side effect: no write to the project
\* store, no change of a topic binding, of a registry or of a history, and no turn.
C27_MissingArgumentGivesUsage ==
  [][Enters =>
       LET msg == handling'[1]
       IN (/\ Permitted(msg)
           /\ msg.parsed.ok
           /\ msg.parsed.cmd \in NamedCommands
           /\ msg.parsed.args = "")
          => /\ sent' = <<SendCall("Usage: /" \o msg.parsed.cmd \o " <projectName>")>>
             /\ UNCHANGED <<store, histVars, pendings, turn, crashed>>]_vars

\* /clearhistory without a name got its usage line; the sender's history-limit action
\* is still pending
C27_Witness ==
  /\ handling # <<>>
  /\ Permitted(handling[1])
  /\ handling[1].Text = "/clearhistory"
  /\ sent = <<SendCall("Usage: /clearhistory <projectName>")>>
  /\ pendingHistLimit[handling[1].From] = "demo"
  /\ pendingClearHist[handling[1].From] = ""

\* ------------------------------------------------------------------- C28
\* C28: the follow-up of a pending clear-history action consumes the action in every
\* case; it deletes the history of the project named at registration when it is the
\* token "confirm" (up to case and surrounding white space), after which the project
\* has no stored entry and the reply reports the number of entries removed; any other
\* follow-up text leaves every history unchanged. No other project's history changes.
C28_ClearOnlyOnConfirm ==
  [][Enters =>
       LET msg == handling'[1]
           u == msg.From
       IN (Permitted(msg) /\ NonCommandText(msg) /\ HeldKinds(u) = {7})
          => LET proj == pendingClearHist[u]
             IN /\ EntryAfter(7, u) = ""
                /\ IF ToLower(TrimSpace(msg.Text)) = "confirm"
                   THEN /\ history'[proj] = <<>>
                        /\ sent' = <<SendCall("Cleared " \o Itoa(Len(history[proj]))
                                                \o " messages from project '" \o proj \o "'.")>>
                   ELSE history'[proj] = history[proj]
                /\ \A p \in Names \ {proj} : history'[p] = history[p]]_vars

\* ------------------------------------------------------------------- C29
\* C29: a turn that found the history limit 0 neither records nor consults history:
\* its request carries no stored entry, and no step of it, from the first to the
\* last, on success or on failure, writes a history entry, also when the store still
\* holds entries that were recorded under an earlier limit.
C29_NoHistoryAtLimitZero ==
  [][\A h \in Handlers :
       /\ (turn'[h].pc # "idle" /\ turn'[h].limit = 0) =>
            /\ \A i \in 1..Len(turn'[h].inputs) : turn'[h].inputs[i].kind # "history"
            /\ UNCHANGED histVars
       /\ (turn[h].pc # "idle" /\ turn[h].limit = 0) => UNCHANGED histVars]_vars

\* the limit was set to 0 after entries had been stored, and a turn has since
\* delivered its result: the entries are still there
C29_Witness ==
  /\ handling # <<>>
  /\ Quiet
  /\ historyLimits["demo"] = 0
  /\ Len(history["demo"]) > 0
  /\ Len(sent) > 0
  /\ sent[1].op = "edit"

C31_InputListOrdered ==
  [][\A h \in Handlers :
       (turn[h].pc = "idle" /\ turn'[h].pc # "idle") =>
         LET t == turn'[h]
             in == t.inputs
             n == Len(in)
             instr == rules[t.proj]
             k == IF instr # "" THEN 1 ELSE 0
             stored == IF historyLimits[t.proj] > 0 THEN history[t.proj] ELSE <<>>
         IN /\ n = k + Len(stored) + 1
            /\ instr # "" <=> in[1].role = "system"
            /\ instr # "" => in[1].kind = "instruction" /\ in[1].content = instr
            /\ \A i \in 1..Len(stored) :
                 /\ in[k + i].kind = "history"
                 /\ in[k + i].role = stored[i].Role
                 /\ in[k + i].content =
                      Itoa(stored[i].When) \o " " \o stored[i].WhoName \o ":\n"
                        \o stored[i].Content
            /\ in[n].kind = "message" /\ in[n].role = "user"
            /\ \A i \in 1..(n - 1) : in[i].kind # "message"]_vars

\* a turn of a project with an instruction and two stored entries is running: its
\* request holds the instruction, the two entries and the user's message
C31_Witness ==
  \E h \in Handlers :
    /\ turn[h].pc # "idle"
    /\ rules[turn[h].proj] # ""
    /\ turn[h].limit > 0
    /\ Len(turn[h].hist) >= 2
    /\ turn[h].hist[1].Role = "user" /\ turn[h].hist[2].Role = "assistant"
    /\ Len(turn[h].inputs) = Len(turn[h].hist) + 2

\* ------------------------------------------------------------------- C32
\* C32: with transcription on and a voice or audio attachment, a failed file lookup,
\* a failed download or a failed transcription does not end the turn: the request is
\* built without a transcript, the handler goes on to the progress message and the
\* model call and returns only after the call has answered, no transcript entry is
\* written to the history, and the transcription is not invoked when the lookup or
\* the download failed.
C32_AudioFailureIsNotFatal ==
  [][\A h \in Handlers :
       LET t == turn[h]
           u == turn'[h]
       IN /\ (t.pc = "idle" /\ u.pc # "idle" /\ u.audio.err # "") =>
               /\ u.transcribed = ""
               /\ \E img \in BOOLEAN : u.parts = RequestParts(u.limit, u.text, "", img)
               /\ \A i \in 1..Len(u.parts) : u.parts[i] # "transcript"
               /\ u.pc \in {"addText", "addImage", "progress"}
               /\ u.audio.err \in {"lookup", "download"} =>
                    \A i \in 1..Len(u.audio.calls) : u.audio.calls[i] # "openAITranscribe"
          /\ (t.pc # "idle" /\ t.audio.err # "") =>
               /\ u.pc = "idle" => t.call = "returned"
               /\ Len(history'[t.proj]) > Len(history[t.proj]) =>
                    LET c == history'[t.proj][Len(history'[t.proj])].Content
                    IN ~(Len(c) >= 19 /\ SubSeq(c, 1, 19) = "(Transcribed audio)")]_vars

\* the download of a voice message with a caption failed, the project keeps
\* history, and the model call of the turn is running
C32_Witness ==
  \E h \in Handlers :
    /\ turn[h].audio.err = "download"
    /\ turn[h].audio.calls = <<"GetFile", "httpGet">>
    /\ turn[h].limit > 0
    /\ turn[h].text # ""
    /\ turn[h].call = "running"
    /\ Len(history[turn[h].proj]) > 0

C34_FallbackOnlyForDefaultModel ==
  /\ Len(completion.calls) <= 2
  /\ \A i \in 1..Len(completion.results) :
       LET r == completion.results[i]
           n == Len(r.calls)
       IN /\ n \in {1, 2}
          /\ r.calls[1].model = r.model
          /\ n = 2 <=> (r.calls[1].err /\ r.model = defaultModel)
          /\ n = 2 => r.calls[2].model = fallbackModel
          /\ r.failed <=> r.calls[n].err

\* one turn with the default model failed and was answered by the fallback model,
\* one turn with another model failed without a second call
C34_Witness ==
  \E i, j \in 1..Len(completion.results) :
    /\ completion.results[i].model = defaultModel
    /\ completion.results[i].calls = <<[model |-> defaultModel, err |-> TRUE],
                                       [model |-> fallbackModel, err |-> FALSE]>>
    /\ ~completion.results[i].failed
    /\ completion.results[j].model = "gpt-4o"
    /\ completion.results[j].calls = <<[model |-> "gpt-4o", err |-> TRUE]>>
    /\ completion.results[j].failed

\* ------------------------------------------------------------------- C35
\* C35: /unsettopic in a topic thread removes the binding of that (chat, topic) and
\* nothing else, and answers "Topic unmapped." whether or not there was a binding:
\* on an unbound topic it leaves all bindings as they are, a second application
\* changes nothing the first has not changed, and after it no plain message of that
\* topic starts a turn.
C35_UnbindIsIdempotent ==
  [][Enters =>
       LET msg == handling'[1]
           key == <<msg.Chat, msg.Thread>>
       IN (/\ ~Denied(msg)
           /\ msg.parsed.ok /\ msg.parsed.cmd = "unsettopic"
           /\ msg.Thread # 0)
          => /\ sent' = <<SendCall("Topic unmapped.")>>
             /\ mapping' = [mapping EXCEPT ![key] = ""]
             /\ mapping[key] = "" => mapping' = mapping
             /\ UnmapTopic(mapping', msg.Chat, msg.Thread) = mapping'
             /\ UNCHANGED <<projects, models, rules, webSearch, reasoning, transcribe,
                            historyLimits, histVars, pendings, turn, crashed>>
             /\ \A m \in PlainUpdates :
                  (m.Chat = msg.Chat /\ m.Thread = msg.Thread) => (Disposition(m) # "turn")']_vars

\* the second update of the run is an /unsettopic in topic 7, answered with
\* "Topic unmapped.", and the topic has no binding
C35_Witness ==
  /\ handling # <<>>
  /\ handling[1].parsed.cmd = "unsettopic"
  /\ handling[1].Thread = 7
  /\ nEvents = 2
  /\ sent = <<SendCall("Topic unmapped.")>>
  /\ mapping[<<1, 7>>] = ""

\* ------------------------------------------------------------------- C36
\* C36: when two text messages of one user are handled at the same time while the
\* user has one pending action, at most one of the handlers consumes it: a handler
\* that stores the answer's value finds the action still registered and takes it
\* away itself, so the value is written once and the other message is handled as an
\* ordinary message; and the process survives.
C36_PendingConsumedOnce ==
  [][/\ \A h \in Handlers :
          (turn[h].pc = "answer" /\ turn'[h].pc = "idle") => pendingModel[turn[h].From] # ""
     /\ ~crashed']_vars

\* ------------------------------------------------------------------- C37
\* C37: when turns of one project with history limit L > 0 have run at the same
\* time, the project holds at most L entries once the last of their handlers has
\* returned. (The handler that returns last has run beside another one if the
\* history holds an entry written after its start that is not its own: a user entry
\* of a later turn, or an assistant entry other than its reply.)
C37_ConcurrentTurnsWithinLimit ==
  [][\A h \in Handlers :
       LET t == turn[h]
           stored == history'[t.proj]
       IN (/\ t.pc \notin {"idle", "answer"}
           /\ \A g \in Handlers : turn'[g].pc = "idle"
           /\ t.limit > 0
           /\ \E i \in 1..Len(stored) :
                /\ stored[i].When > t.when
                /\ stored[i].Role = "assistant" => stored[i].Content # t.reply)
          => Len(stored) <= t.limit]_vars

\* ------------------------------------------------------------------- C38
\* C38: every edit a turn issues, the "Waiting N seconds" edits of the ticker and the
\* edit to the result or to the error text, goes to the message the turn sent as its
\* progress message, in the turn's chat; the ticker's edits are issued only while the
\* handler has not taken the result from the completion task, the edit to the result
\* is the first call of the step that takes it, and no edit follows it in that turn.
C38_EditsTargetProgressMessage ==
  [][\A h \in Handlers :
       LET t == turn[h]
       IN /\ \A i \in 1..Len(t.log) :
               t.log[i].op = "edit" => t.log[i].id = t.progress /\ t.log[i].chat = t.chat
          /\ (t.pc # "idle" /\ turn'[h] # t) =>
               /\ \A i \in 1..Len(sent') :
                    sent'[i].op = "edit" =>
                      /\ t.pc = "waiting"
                      /\ sent'[i].id = t.progress
                      /\ sent'[i].chat = t.chat
                      /\ t.progress = SentID(t.msgID)
                      /\ t.log[1] = SendTo(t.chat, t.thread, "Sending to ChatGPT...", t.msgID)
                      /\ (turn'[h].pc = "waiting") = (Len(sent'[i].text) >= 7
                                                       /\ SubSeq(sent'[i].text, 1, 7) = "Waiting")
                      /\ turn'[h].pc # "waiting" => i = 1 /\ sent'[i].text = SubSeq(t.reply, 1, Len(sent'[i].text))
               /\ t.pc \in {"addReply", "trim"} => sent' = <<>>]_vars

\* the second turn of a conversation: the progress message, one edit of the ticker
\* and the edit to the reply, both to the id of the progress message
C38_Witness ==
  \E h \in Handlers :
    LET t == turn[h]
    IN /\ t.pc = "addReply"
       /\ t.msgID = MessageID(1)
       /\ t.progress = SentID(MessageID(1))
       /\ t.log = <<SendTo(t.chat, t.thread, "Sending to ChatGPT...", t.msgID),
                    [op |-> "edit", text |-> "Waiting 10 seconds for ChatGPT answer...",
                     chat |-> t.chat, id |-> t.progress],
                    [op |-> "edit", text |-> "pong", chat |-> t.chat, id |-> t.progress]>>

\* ------------------------------------------------------------------- C39
\* C39: a valid answer to /sethistorylimit stores the new limit of that project and
\* changes nothing else: no history entry, no other setting, no other project's
\* limit, no other pending action. The stored entries of a project get fewer only
\* in the trim of a turn of that project or in a confirmed clear, so entries in
\* excess of a lowered limit stay until a later turn trims.
C39_SetLimitChangesOnlyTheLimit ==
  [][/\ Enters =>
          LET msg == handling'[1]
              u == msg.From
          IN (/\ u \in Users
              /\ NonCommandText(msg)
              /\ HeldKinds(u) # {}
              /\ FirstHeld(u) = 6
              /\ Acceptable(6, msg.Text))
             => /\ historyLimits' =
                     [historyLimits EXCEPT ![pendingHistLimit[u]] = Stored(6, msg.Text)]
                /\ UNCHANGED <<projects, mapping, models, rules, webSearch, reasoning,
                               transcribe, histVars, turn>>
                /\ \A i \in 1..7, v \in Users : (i # 6 \/ v # u) => EntryAfter(i, v) = Entry(i, v)
     /\ \A p \in Names :
          Len(history'[p]) < Len(history[p]) =>
            \/ \E h \in Handlers : turn[h].pc = "trim" /\ turn[h].proj = p
            \/ /\ Enters
               /\ pendingClearHist[handling'[1].From] = p
               /\ ToLower(TrimSpace(handling'[1].Text)) = "confirm"]_vars

\* the limit of a project that holds two entries has just been lowered to 1: both
\* entries are still stored
C39_Witness ==
  /\ handling # <<>>
  /\ handling[1].Text = "1"
  /\ sent = <<SendCall("History limit for project 'demo' set to 1.")>>
  /\ historyLimits["demo"] = 1
  /\ Len(history["demo"]) = 2

\* ------------------------------------------------------------------- C40
\* C40: a message that begins with a command token the switch does not know is
\* handled as a text. If its sender has a pending action, the first of them in the
\* order of the kinds is consumed and the whole text, token included, is the answer:
\* stored as the model or the instruction, or put to the test of the kind and, as it
\* fails it, answered with the corrective reply (with "Cancelled." for a clear). If
\* the sender has none, a turn with that text starts when the topic is bound, and
\* nothing is done when it is not. No reply is a usage line or names an unknown
\* command.
C40_UnknownCommandIsText ==
  [][Enters =>
       LET msg == handling'[1]
           u == msg.From
           k == FirstHeld(u)
       IN (Permitted(msg) /\ msg.parsed.ok /\ msg.parsed.cmd \notin CmdNames)
          => /\ \A i \in 1..Len(sent') :
                  /\ ~(Len(sent'[i].text) >= 6 /\ SubSeq(sent'[i].text, 1, 6) = "Usage:")
                  /\ ~(Len(sent'[i].text) >= 7 /\ SubSeq(sent'[i].text, 1, 7) = "Unknown")
             /\ HeldKinds(u) # {} =>
                  /\ EntryAfter(k, u) = ""
                  /\ \A i \in 1..7 : i # k => EntryAfter(i, u) = Entry(i, u)
                  /\ UNCHANGED turn
                  /\ k \in {1, 2} =>
                       SettingAfter(k) = [Setting(k) EXCEPT ![Entry(k, u)] = TrimSpace(msg.Text)]
                  /\ k \in 3..6 =>
                       /\ ~Acceptable(k, msg.Text)
                       /\ sent' = <<SendCall(Corrective(k))>>
                       /\ UNCHANGED <<store, histVars>>
                  /\ k = 7 => sent' = <<SendCall("Cancelled.")>> /\ UNCHANGED <<store, histVars>>
             /\ (HeldKinds(u) = {} /\ mapping[<<msg.Chat, msg.Thread>>] # "") =>
                  \E h \in Handlers :
                    /\ turn[h].pc = "idle" /\ turn'[h].pc # "idle"
                    /\ turn'[h].text = msg.Text
                    /\ turn'[h].proj = mapping[<<msg.Chat, msg.Thread>>]
             /\ (HeldKinds(u) = {} /\ mapping[<<msg.Chat, msg.Thread>>] = "") =>
                  /\ sent' = <<>>
                  /\ UNCHANGED <<store, histVars, pendings, turn>>]_vars

\* "/help demo" was sent while a model was asked for: it is the model of the project
C40_Witness ==
  /\ handling # <<>>
  /\ handling[1].Text = "/help demo"
  /\ handling[1].parsed.cmd = "help"
  /\ models["demo"] = "/help demo"
  /\ pendingModel[handling[1].From] = ""
  /\ sent = <<SendCall("Project 'demo' uses model '/help demo'.")>>

====
